---- MODULE Spec2Model ----
(***************************************************************************)
(* Model of package logwrap (github.com/pabigot/logwrap): the LogLogger    *)
(* sink logger and the channel-based forwarding logger (MakeChanLogger,    *)
(* PrefixedChanLogger, chanLogger.F, emittable.Emit), with producers that  *)
(* submit through forwarding endpoints and one consumer that receives and  *)
(* emits, as in ExampleMakeChanLogger.                                     *)
(*                                                                         *)
(* Text is modelled as a sequence of tokens; the verbs %d and %s are       *)
(* tokens of a format, and concatenation of texts is \o.                   *)
(***************************************************************************)
EXTENDS Integers, Sequences, FiniteSets, TLC

(* ---------------------------------------------------------------- bounds *)
\* number of producer goroutines
NProducers == 2
\* number of F calls each producer makes
MaxCalls == 2
\* number of operations the owner applies to its loggers directly
MaxOps == 3
\* number of Logf calls each caller makes
MaxWrap == 1
\* number of leading letters of a priority name that are tried in both cases
MaxMix == 3
\* number of SetPriority calls the owner makes on the wrapped logger
MaxSetPriority == 1
\* largest capacity requested of MakeChanLogger
MaxReqCap == 2

(* ------------------------------------------------------------ priorities *)
Emerg == 0
Crit == 1
Error == 2
Warning == 3
Notice == 4
Info == 5
Debug == 6

Priorities == Emerg..Debug

\* an Enables that leaves out the priority itself
Enables_strict(p, p2) == p2 < p

\* Priority.Enables: p2 <= p
Enables(p, p2) == p2 <= p

\* priMap: the marker of a priority in an emitted line; the map has no entry
\* for another value, and priMap[pri] is then the empty string
priMap(p) ==
  CASE p = Emerg -> "!"
    [] p = Crit -> "C"
    [] p = Error -> "E"
    [] p = Warning -> "W"
    [] p = Notice -> "N"
    [] p = Info -> "I"
    [] p = Debug -> "D"
    [] OTHER -> ""

(* ------------------------------------------------------------ formatting *)
IntArg(n) == [t |-> "int", v |-> ToString(n)]
StrArg(s) == [t |-> "string", v |-> s]

IsVerb(tok) == tok \in {"%d", "%s"}

\* fmt.Sprintf of one verb with one operand: a %d of a string and a %s of an
\* int are reported in the output, as fmt does
FormatArg(verb, a) ==
  IF verb = "%d"
  THEN IF a.t = "int" THEN <<a.v>> ELSE <<"%!d(", a.t, "=", a.v, ")">>
  ELSE <<a.v>>

RECURSIVE Extra(_)
Extra(args) ==
  IF args = <<>> THEN <<>>
  ELSE <<Head(args).t, "=", Head(args).v>>
       \o (IF Len(args) > 1 THEN <<", ">> ELSE <<>>) \o Extra(Tail(args))

\* fmt.Sprintf(format, args...): each verb consumes the next operand; a verb
\* without operand prints %!v(MISSING), operands left over print %!(EXTRA ...)
RECURSIVE Sprintf(_, _)
Sprintf(format, args) ==
  IF format = <<>>
  THEN IF args = <<>> THEN <<>> ELSE <<"%!(EXTRA ">> \o Extra(args) \o <<")">>
  ELSE LET tok == Head(format) IN
       IF IsVerb(tok)
       THEN IF args = <<>>
            THEN <<"%!", tok, "(MISSING)">> \o Sprintf(Tail(format), args)
            ELSE FormatArg(tok, Head(args)) \o Sprintf(Tail(format), Tail(args))
       ELSE <<tok>> \o Sprintf(Tail(format), args)

\* flags of log.Logger
LstdFlags == {"Ldate", "Ltime"}

\* log.Logger.Printf: header (prefix, date and time, in the order the flags
\* give), the message, and a newline
LogPrintf(pfx, flg, msg) ==
  (IF "Lmsgprefix" \in flg THEN <<>> ELSE pfx)
  \o (IF "Ldate" \in flg THEN <<"<date> ">> ELSE <<>>)
  \o (IF "Ltime" \in flg THEN <<"<time> ">> ELSE <<>>)
  \o (IF "Lmsgprefix" \in flg THEN pfx ELSE <<>>)
  \o msg \o <<"\n">>

(* ----------------------------------------------------------------- state *)
VARIABLES
  pri,        \* LogLogger.pri of the wrapped logger
  prefix,     \* prefix of its log.Logger (SetId)
  flags,      \* flags of its log.Logger
  sb,         \* the sink: the lines written, in order
  reqCap,     \* cap as passed to MakeChanLogger
  chanCap,    \* cap(ech)
  ech,        \* the channel's buffer of emittables
  ep,         \* ep[p]: the endpoint producer p holds
  pc,         \* pc[p]: "idle", or "send" (in F, at the channel send)
  msg,        \* msg[p]: the emittable producer p is sending
  cnt,        \* cnt[p]: F calls producer p has begun
  cons,       \* consumer: "idle", "got" (holds lm), "inF" (in the wrapped F)
  lm,         \* the message the consumer holds
  inF,        \* contexts executing the wrapped logger's F
  calls,      \* history: calls[id], the inputs of the F call that made message id
  sent,       \* history: ids of messages, in the order their sends completed
  received,   \* history: ids of messages, in the order they were received
  emitted,    \* history: Emit calls completed
  nSetPri,    \* SetPriority calls made
  panicked,   \* a goroutine panicked (nil dereference)
  closed,     \* the channel has been closed
  dsrc,       \* history: dsrc[p], the kind of logger p's endpoint was derived from
  npri,       \* the nullLogger: its value is its threshold
  ret,        \* the Logger the last SetId or SetPriority of the owner returned
  ops,        \* history: the operations the owner applied to its loggers directly
  pv,         \* a Priority variable (var p Priority)
  pop,        \* the last operation on priorities and texts, with its result
  wcalls,     \* history: wcalls[c], the calls of Logf functions caller c made
  ich,        \* number of exit notifications in the channel ich
  ccnt,       \* cnt of ChanService.main: exit notifications received
  alist       \* the array of a producer's own argument list

\* the state of the null logger and of the owner's direct use of its loggers
lvars == <<npri, ret, ops>>

\* the Priority variable and the last operation on it
pvars == <<pv, pop>>

\* the calls of Logf functions
wvars == <<wcalls>>

\* the exit notifications of the example service
evars == <<ich, ccnt>>

\* a producer's own argument list
avars == <<alist>>

\* the state outside the loggers and the forwarding layer
uvars == <<pvars, wvars, evars, avars>>

\* uvars without pvars, without wvars, without evars, and without avars
restP == <<wvars, evars, avars>>
restW == <<pvars, evars, avars>>
restE == <<pvars, wvars, avars>>
restA == <<pvars, wvars, evars>>

vars == <<pri, prefix, flags, sb, reqCap, chanCap, ech, ep, pc, msg, cnt, cons,
          lm, inF, calls, sent, received, emitted, nSetPri, panicked, closed, dsrc,
          lvars, uvars>>

(* ------------------------------------------------- the state not in use *)
\* no operation on priorities was made
NoPop == [op |-> "none", in |-> <<>>, pri |-> 0, ok |-> FALSE,
          wraps |-> "nil", msg |-> <<>>, out |-> <<>>]

\* a Priority variable at its zero value, nothing done with it
PInit == pv = 0 /\ pop = NoPop

\* the callers of Logf functions: the owner of the logger, 0, and the
\* producers; none has called
Callers == 0..NProducers
WInit == wcalls = [c \in Callers |-> <<>>]

\* no exit notification sent
EInit == ich = 0 /\ ccnt = 0

\* no argument list
AInit == alist = <<>>

\* the state outside the loggers and the forwarding layer, at rest
UInit == PInit /\ WInit /\ EInit /\ AInit

(* ------------------------------------------------------- logger values *)
Producers == 1..NProducers
Consumer == "consumer"

\* An ImmutableLogger interface value: its dynamic type, and for a
\* *chanLogger whether the pointer is nil and the fields it points to.
\* ech names the channel a chanLogger sends to, lgr the logger it wraps.
LogLoggerRef ==
  [type |-> "LogLogger", nil |-> FALSE, ech |-> "none", pfx |-> <<>>, lgr |-> "none"]
NilChanLogger ==
  [type |-> "chanLogger", nil |-> TRUE, ech |-> "none", pfx |-> <<>>, lgr |-> "none"]
Panic == [type |-> "panic", nil |-> TRUE, ech |-> "none", pfx |-> <<>>, lgr |-> "none"]
\* no PrefixedChanLogger call was made
NoLogger == [type |-> "none", nil |-> TRUE, ech |-> "none", pfx |-> <<>>, lgr |-> "none"]

\* the dynamic type of an interface value, and whether the pointer is nil
Kind(l) == [type |-> l.type, nil |-> l.nil]

\* a coercion that replaces negative values only
MakeChanLoggerCap_negative(cap) == IF cap < 0 THEN 1 ELSE cap

\* MakeChanLogger: values of cap less than 1 are replaced by 1
MakeChanLoggerCap(cap) == IF cap < 1 THEN 1 ELSE cap

\* MakeChanLogger(lgr, cap): the channel (empty, of the effective capacity)
\* and the endpoint, which has no prefix
MakeChanLogger(lgr, cap) ==
  [ech |-> <<>>,
   cap |-> MakeChanLoggerCap(cap),
   cl |-> [type |-> "chanLogger", nil |-> FALSE, ech |-> "ech", pfx |-> <<>>,
           lgr |-> lgr]]

\* a PrefixedChanLogger that copies *cl and does not set the prefix
PrefixedChanLogger_keep(lgr, pfx) ==
  IF lgr.type = "chanLogger"
  THEN IF lgr.nil THEN Panic ELSE lgr
  ELSE NilChanLogger

\* a PrefixedChanLogger that builds a new chanLogger with pfx and leaves its
\* lgr unset
PrefixedChanLogger_fresh(lgr, pfx) ==
  IF lgr.type = "chanLogger"
  THEN IF lgr.nil THEN Panic
       ELSE [type |-> "chanLogger", nil |-> FALSE, ech |-> lgr.ech, pfx |-> pfx,
             lgr |-> "none"]
  ELSE NilChanLogger

\* a PrefixedChanLogger that adds pfx behind the prefix lgr has
PrefixedChanLogger_nest(lgr, pfx) ==
  IF lgr.type = "chanLogger"
  THEN IF lgr.nil THEN Panic ELSE [lgr EXCEPT !.pfx = @ \o pfx]
  ELSE NilChanLogger

\* PrefixedChanLogger(lgr, pfx): a copy of *cl with pfx set when lgr is a
\* *chanLogger (dereferencing it: a nil *chanLogger panics), else nil
PrefixedChanLogger(lgr, pfx) ==
  IF lgr.type = "chanLogger"
  THEN IF lgr.nil THEN Panic ELSE [lgr EXCEPT !.pfx = pfx]
  ELSE NilChanLogger

\* the result of a Priority() call: a value, or a panic (nil dereference)
Returns(p) == [panic |-> FALSE, pri |-> p]
Panics == [panic |-> TRUE, pri |-> Emerg]

\* nullLogger.Priority: the nullLogger value converted to Priority
nullLogger_Priority(v) == v

\* l.Priority() of the logger the interface value l refers to: LogLogger's
\* returns v.pri, nullLogger's its value; a nil interface panics
Logger_Priority(l) ==
  IF l = "blgr" THEN Returns(pri)
  ELSE IF l = "nlgr" THEN Returns(nullLogger_Priority(npri))
  ELSE Panics

\* chanLogger.Priority: v.lgr.Priority(); v.lgr of a nil v panics
chanLogger_Priority(v) ==
  IF v.nil THEN Panics ELSE Logger_Priority(v.lgr)

\* an F that writes without consulting the threshold
LogLogger_F_unfiltered(thr, pfx, flg, out, p, format, args) ==
  Append(out, LogPrintf(pfx, flg,
                        <<"[", priMap(p), "]", " ">> \o Sprintf(format, args)))

\* an F that takes the marker from the logger's threshold
LogLogger_F_thrmarker(thr, pfx, flg, out, p, format, args) ==
  IF Enables(thr, p)
  THEN Append(out, LogPrintf(pfx, flg,
                             <<"[", priMap(thr), "]", " ">> \o Sprintf(format, args)))
  ELSE out

\* LogLogger.F as a function of the logger's state: the sink after the call
LogLogger_F(thr, pfx, flg, out, p, format, args) ==
  IF Enables(thr, p)
  THEN Append(out, LogPrintf(pfx, flg,
                             <<"[", priMap(p), "]", " ">> \o Sprintf(format, args)))
  ELSE out

\* an emittable whose format lacks the endpoint's prefix
Emittable_noprefix(v, id, p, format, args) ==
  [lgr |-> v.lgr, pri |-> p, fmt |-> format, args |-> args, id |-> id]

\* the emittable chanLogger.F builds; id stands for the identity of the
\* allocated object
Emittable(v, id, p, format, args) ==
  [lgr |-> v.lgr, pri |-> p, fmt |-> v.pfx \o format, args |-> args, id |-> id]

NoMsg == [lgr |-> "none", pri |-> Emerg, fmt |-> <<>>, args |-> <<>>, id |-> <<0, 0>>]

\* the identities of the messages: <<p, k>> is made by producer p's k-th call
MsgIds == Producers \X (1..MaxCalls)

NoCall == [made |-> FALSE, ep |-> NilChanLogger, pri |-> Emerg, format |-> <<>>,
           args |-> <<>>, thr |-> Emerg]

(* ---------------------------------------------------------------- inputs *)
ReqCaps == (0 - 1)..MaxReqCap

\* the thresholds the owner sets
Thresholds == {Crit, Debug}

\* the (priority, format, arguments) of the F calls
Inputs ==
  { [pri |-> Warning, format |-> <<"hi ", "%d">>, args |-> <<IntArg(7)>>],
    [pri |-> Debug, format |-> <<"x">>, args |-> <<>>] }

\* the prefix producer p asks of PrefixedChanLogger
Pfx(p) == <<"s", ToString(p), ": ">>

(* ------------------------------------------------------------------ Init *)
Init ==
  /\ pri = Warning
  /\ prefix = <<>>
  /\ flags = LstdFlags
  /\ sb = <<>>
  /\ reqCap \in ReqCaps
  /\ chanCap = MakeChanLogger("blgr", reqCap).cap
  /\ ech = MakeChanLogger("blgr", reqCap).ech
  /\ ep = [p \in Producers |-> MakeChanLogger("blgr", reqCap).cl]
  /\ pc = [p \in Producers |-> "idle"]
  /\ msg = [p \in Producers |-> NoMsg]
  /\ cnt = [p \in Producers |-> 0]
  /\ cons = "idle"
  /\ lm = NoMsg
  /\ inF = {}
  /\ calls = [id \in MsgIds |-> NoCall]
  /\ sent = <<>>
  /\ received = <<>>
  /\ emitted = <<>>
  /\ nSetPri = 0
  /\ panicked = FALSE
  /\ closed = FALSE
  /\ dsrc = [p \in Producers |-> Kind(NoLogger)]
  /\ npri = Warning
  /\ ret = "none"
  /\ ops = <<>>
  /\ UInit

(* ------------------------------------------------------------- producers *)
\* an F that calls the wrapped logger itself, in the producer's goroutine
chanLogger_F_direct(p, in) ==
  /\ ~panicked
  /\ pc[p] = "idle"
  /\ cnt[p] < MaxCalls
  /\ cnt' = [cnt EXCEPT ![p] = @ + 1]
  /\ calls' = [calls EXCEPT ![<<p, cnt[p] + 1>>] =
                  [made |-> TRUE, ep |-> ep[p], pri |-> in.pri, format |-> in.format,
                   args |-> in.args, thr |-> pri]]
  /\ IF ep[p].nil
     THEN sb' = sb
     ELSE sb' = LogLogger_F(pri, prefix, flags, sb, in.pri, ep[p].pfx \o in.format, in.args)
  /\ UNCHANGED <<pri, prefix, flags, reqCap, chanCap, ech, ep, pc, msg, cons, lm, inF,
                 sent, received, emitted, nSetPri, panicked,
                 closed, dsrc,
                 lvars, uvars>>

\* an F without the test of a nil receiver: v.ech of a nil v panics
chanLogger_F_nonilcheck(p, in) ==
  /\ ~panicked
  /\ pc[p] = "idle"
  /\ cnt[p] < MaxCalls
  /\ cnt' = [cnt EXCEPT ![p] = @ + 1]
  /\ calls' = [calls EXCEPT ![<<p, cnt[p] + 1>>] =
                  [made |-> TRUE, ep |-> ep[p], pri |-> in.pri, format |-> in.format,
                   args |-> in.args, thr |-> pri]]
  /\ IF ep[p].nil
     THEN panicked' = TRUE /\ UNCHANGED <<pc, msg>>
     ELSE /\ pc' = [pc EXCEPT ![p] = "send"]
          /\ msg' = [msg EXCEPT ![p] =
                       Emittable(ep[p], <<p, cnt[p] + 1>>, in.pri, in.format, in.args)]
          /\ panicked' = FALSE
  /\ UNCHANGED <<pri, prefix, flags, sb, reqCap, chanCap, ech, ep, cons, lm, inF,
                 sent, received, emitted, nSetPri, closed, dsrc,
                 lvars, uvars>>

\* an F that applies the priority filter at submission
chanLogger_F_filtered(p, in) ==
  /\ ~panicked
  /\ pc[p] = "idle"
  /\ cnt[p] < MaxCalls
  /\ cnt' = [cnt EXCEPT ![p] = @ + 1]
  /\ calls' = [calls EXCEPT ![<<p, cnt[p] + 1>>] =
                  [made |-> TRUE, ep |-> ep[p], pri |-> in.pri, format |-> in.format,
                   args |-> in.args, thr |-> pri]]
  /\ IF ep[p].nil \/ ~Enables(pri, in.pri)
     THEN UNCHANGED <<pc, msg>>
     ELSE /\ pc' = [pc EXCEPT ![p] = "send"]
          /\ msg' = [msg EXCEPT ![p] =
                       Emittable(ep[p], <<p, cnt[p] + 1>>, in.pri, in.format, in.args)]
  /\ UNCHANGED <<pri, prefix, flags, sb, reqCap, chanCap, ech, ep, cons, lm, inF,
                 sent, received, emitted, nSetPri, panicked,
                 closed, dsrc,
                 lvars, uvars>>

\* chanLogger.F up to the channel send: a nil receiver returns at once, any
\* other builds the emittable, without consulting the threshold
chanLogger_F(p, in) ==
  /\ ~panicked
  /\ pc[p] = "idle"
  /\ cnt[p] < MaxCalls
  /\ cnt' = [cnt EXCEPT ![p] = @ + 1]
  /\ calls' = [calls EXCEPT ![<<p, cnt[p] + 1>>] =
                  [made |-> TRUE, ep |-> ep[p], pri |-> in.pri, format |-> in.format,
                   args |-> in.args, thr |-> pri]]
  /\ IF ep[p].nil
     THEN UNCHANGED <<pc, msg>>
     ELSE /\ pc' = [pc EXCEPT ![p] = "send"]
          /\ msg' = [msg EXCEPT ![p] =
                       Emittable(ep[p], <<p, cnt[p] + 1>>, in.pri, in.format, in.args)]
  /\ UNCHANGED <<pri, prefix, flags, sb, reqCap, chanCap, ech, ep, cons, lm, inF,
                 sent, received, emitted, nSetPri, panicked,
                 closed, dsrc,
                 lvars, uvars>>

\* a send that gives up when the buffer is full (select with a default case)
chanLogger_F_send_or_drop(p) ==
  /\ ~panicked
  /\ pc[p] = "send"
  /\ IF Len(ech) < chanCap
     THEN ech' = Append(ech, msg[p]) /\ sent' = Append(sent, msg[p].id)
     ELSE ech' = ech /\ sent' = sent
  /\ pc' = [pc EXCEPT ![p] = "idle"]
  /\ msg' = [msg EXCEPT ![p] = NoMsg]
  /\ UNCHANGED <<pri, prefix, flags, sb, reqCap, chanCap, ep, cnt, cons, lm, inF,
                 calls, received, emitted, nSetPri, panicked,
                 closed, dsrc,
                 lvars, uvars>>

\* a send that puts the message at the head of the buffer
chanLogger_F_send_front(p) ==
  /\ ~panicked
  /\ pc[p] = "send"
  /\ Len(ech) < chanCap
  /\ ech' = <<msg[p]>> \o ech
  /\ sent' = Append(sent, msg[p].id)
  /\ pc' = [pc EXCEPT ![p] = "idle"]
  /\ msg' = [msg EXCEPT ![p] = NoMsg]
  /\ UNCHANGED <<pri, prefix, flags, sb, reqCap, chanCap, ep, cnt, cons, lm, inF,
                 calls, received, emitted, nSetPri, panicked,
                 closed, dsrc,
                 lvars, uvars>>

\* a send that never blocks: the buffer grows past its capacity
chanLogger_F_send_unbounded(p) ==
  /\ ~panicked
  /\ pc[p] = "send"
  /\ ech' = Append(ech, msg[p])
  /\ sent' = Append(sent, msg[p].id)
  /\ pc' = [pc EXCEPT ![p] = "idle"]
  /\ msg' = [msg EXCEPT ![p] = NoMsg]
  /\ UNCHANGED <<pri, prefix, flags, sb, reqCap, chanCap, ep, cnt, cons, lm, inF,
                 calls, received, emitted, nSetPri, panicked,
                 closed, dsrc,
                 lvars, uvars>>

\* a send that closes the channel behind it
chanLogger_F_send_close(p) ==
  /\ ~panicked
  /\ pc[p] = "send"
  /\ ep[p].ech = "ech"
  /\ ~closed
  /\ Len(ech) < chanCap
  /\ ech' = Append(ech, msg[p])
  /\ sent' = Append(sent, msg[p].id)
  /\ pc' = [pc EXCEPT ![p] = "idle"]
  /\ msg' = [msg EXCEPT ![p] = NoMsg]
  /\ closed' = TRUE
  /\ UNCHANGED <<pri, prefix, flags, sb, reqCap, chanCap, ep, cnt, cons, lm, inF,
                 calls, received, emitted, nSetPri, panicked, dsrc,
                 lvars, uvars>>

\* a send that keeps the last place of the buffer free
chanLogger_F_send_short(p) ==
  /\ ~panicked
  /\ pc[p] = "send"
  /\ Len(ech) < chanCap - 1
  /\ ech' = Append(ech, msg[p])
  /\ sent' = Append(sent, msg[p].id)
  /\ pc' = [pc EXCEPT ![p] = "idle"]
  /\ msg' = [msg EXCEPT ![p] = NoMsg]
  /\ UNCHANGED <<pri, prefix, flags, sb, reqCap, chanCap, ep, cnt, cons, lm, inF,
                 calls, received, emitted, nSetPri, panicked,
                 closed, dsrc,
                 lvars, uvars>>

\* v.ech <- m: completes when the buffer has room, and blocks until then (for
\* ever on a nil channel); a send on a closed channel panics
chanLogger_F_send(p) ==
  /\ ~panicked
  /\ pc[p] = "send"
  /\ ep[p].ech = "ech"
  /\ IF closed
     THEN panicked' = TRUE /\ UNCHANGED <<ech, sent, pc, msg>>
     ELSE /\ Len(ech) < chanCap
          /\ ech' = Append(ech, msg[p])
          /\ sent' = Append(sent, msg[p].id)
          /\ pc' = [pc EXCEPT ![p] = "idle"]
          /\ msg' = [msg EXCEPT ![p] = NoMsg]
          /\ panicked' = FALSE
  /\ UNCHANGED <<pri, prefix, flags, sb, reqCap, chanCap, ep, cnt, cons, lm, inF,
                 calls, received, emitted, nSetPri, closed, dsrc,
                 lvars, uvars>>

\* lw.PrefixedChanLogger(src, pfx), the result handed to producer p before it
\* starts logging
Derive(p, src) ==
  /\ ~panicked
  /\ pc[p] = "idle"
  /\ cnt[p] = 0
  /\ LET rv == PrefixedChanLogger(src, Pfx(p)) IN
     IF rv = Panic
     THEN panicked' = TRUE /\ ep' = ep
     ELSE panicked' = FALSE /\ ep' = [ep EXCEPT ![p] = rv]
  /\ dsrc' = [dsrc EXCEPT ![p] = Kind(src)]
  /\ UNCHANGED <<pri, prefix, flags, sb, reqCap, chanCap, ech, pc, msg, cnt, cons,
                 lm, inF, calls, sent, received, emitted, nSetPri, closed,
                 lvars, uvars>>

\* the loggers PrefixedChanLogger is applied to: the endpoints in use, the
\* endpoint MakeChanLogger returned, and the wrapped LogLogger itself
DeriveSources ==
  {ep[q] : q \in Producers} \cup {MakeChanLogger("blgr", reqCap).cl, LogLoggerRef}

(* -------------------------------------------------------------- consumer *)
\* a receive that takes the newest message of the buffer
Recv_newest ==
  /\ ~panicked
  /\ cons = "idle"
  /\ ech # <<>>
  /\ lm' = ech[Len(ech)]
  /\ ech' = SubSeq(ech, 1, Len(ech) - 1)
  /\ received' = Append(received, ech[Len(ech)].id)
  /\ cons' = "got"
  /\ UNCHANGED <<pri, prefix, flags, sb, reqCap, chanCap, ep, pc, msg, cnt, inF,
                 calls, sent, emitted, nSetPri, panicked,
                 closed, dsrc,
                 lvars, uvars>>

\* lm := <-lch: the oldest message of the buffer; a closed and empty channel
\* yields the nil Emitter
Recv ==
  /\ ~panicked
  /\ cons = "idle"
  /\ ech # <<>> \/ closed
  /\ IF ech # <<>>
     THEN /\ lm' = Head(ech)
          /\ ech' = Tail(ech)
          /\ received' = Append(received, Head(ech).id)
     ELSE lm' = NoMsg /\ ech' = ech /\ received' = received
  /\ cons' = "got"
  /\ UNCHANGED <<pri, prefix, flags, sb, reqCap, chanCap, ep, pc, msg, cnt, inF,
                 calls, sent, emitted, nSetPri, panicked,
                 closed, dsrc,
                 lvars, uvars>>

\* lm.Emit(): enters m.lgr.F, which panics when m.lgr is a nil interface
Emit_begin ==
  /\ ~panicked
  /\ cons = "got"
  /\ IF lm.lgr = "blgr"
     THEN cons' = "inF" /\ inF' = inF \cup {Consumer} /\ panicked' = FALSE
     ELSE cons' = cons /\ inF' = inF /\ panicked' = TRUE
  /\ UNCHANGED <<pri, prefix, flags, sb, reqCap, chanCap, ech, ep, pc, msg, cnt, lm,
                 calls, sent, received, emitted, nSetPri, closed, dsrc,
                 lvars, uvars>>

\* an Emit that filters by the threshold in force when F was called
emittable_Emit_at_submit(m) ==
  LogLogger_F(calls[m.id].thr, prefix, flags, sb, m.pri, m.fmt, m.args)

\* an Emit that passes the format without the arguments
emittable_Emit_noargs(m) == LogLogger_F(pri, prefix, flags, sb, m.pri, m.fmt, <<>>)

\* emittable.Emit: m.lgr.F(m.pri, m.fmt, m.args...)
emittable_Emit(m) == LogLogger_F(pri, prefix, flags, sb, m.pri, m.fmt, m.args)

\* the wrapped logger's F returns, and Emit with it
Emit_end ==
  /\ ~panicked
  /\ cons = "inF"
  /\ sb' = emittable_Emit(lm)
  /\ emitted' = Append(emitted, [id |-> lm.id, thr |-> pri, wrote |-> sb' # sb])
  /\ inF' = inF \ {Consumer}
  /\ cons' = "idle"
  /\ lm' = NoMsg
  /\ UNCHANGED <<pri, prefix, flags, reqCap, chanCap, ech, ep, pc, msg, cnt,
                 calls, sent, received, nSetPri, panicked,
                 closed, dsrc,
                 lvars, uvars>>

\* LogLogger.SetPriority, called by the owner of the wrapped logger (the
\* consumer's goroutine) between its other steps
SetPriority(t) ==
  /\ ~panicked
  /\ cons \in {"idle", "got"}
  /\ nSetPri < MaxSetPriority
  /\ nSetPri' = nSetPri + 1
  /\ pri' = t
  /\ UNCHANGED <<prefix, flags, sb, reqCap, chanCap, ech, ep, pc, msg, cnt, cons, lm,
                 inF, calls, sent, received, emitted, panicked,
                 closed, dsrc,
                 lvars, uvars>>

(* ------------------------------------------------------------------ Spec *)
Next ==
  \/ \E p \in Producers : \E in \in Inputs : chanLogger_F(p, in)
  \/ \E p \in Producers : chanLogger_F_send(p)
  \/ \E p \in Producers : \E src \in DeriveSources : Derive(p, src)
  \/ Recv
  \/ Emit_begin
  \/ Emit_end
  \/ \E t \in Thresholds : SetPriority(t)

Spec == Init /\ [][Next]_vars

(* ------------------------------------------- loggers used by their owner *)
\* owner values handed to a LogMaker
Owners == {"nil", "svc"}

\* identifiers handed to SetId
Ids == {<<"ID ">>, <<"B">>}

\* format and operands of the owner's F calls
LogInputs ==
  {[format |-> <<"hi ", "%d">>, args |-> <<IntArg(7)>>],
   [format |-> <<"x">>, args |-> <<>>]}

\* a LogLogMaker whose initial priority depends on the owner
LogLogMaker_owner(owner) ==
  [prefix |-> <<>>, flags |-> LstdFlags,
   pri |-> IF owner = "nil" THEN Warning ELSE Debug]

\* LogLogMaker: a LogLogger on log.New(os.Stderr, "", log.LstdFlags) with
\* priority Warning
LogLogMaker(owner) == [prefix |-> <<>>, flags |-> LstdFlags, pri |-> Warning]

\* NullLogMaker: nullLogger(Warning)
NullLogMaker(owner) == Warning

\* the variables of the forwarding layer
cvars == <<reqCap, chanCap, ech, ep, pc, msg, cnt, cons, lm, inF, calls, sent,
           received, emitted, nSetPri, panicked, closed, dsrc>>

\* an entry of ops: the operation and its operands; wrote tells whether the
\* call added to the sink
Op(op, p, id, in, wrote) ==
  [op |-> op, pri |-> p, id |-> id, format |-> in.format, args |-> in.args,
   wrote |-> wrote]
NoInput == [format |-> <<>>, args |-> <<>>]

\* the loggers as LogLogMaker and NullLogMaker return them, nothing written,
\* and a forwarding layer that stays unused
InitLog ==
  /\ \E owner \in Owners :
       /\ pri = LogLogMaker(owner).pri
       /\ prefix = LogLogMaker(owner).prefix
       /\ flags = LogLogMaker(owner).flags
       /\ npri = NullLogMaker(owner)
  /\ sb = <<>>
  /\ ret = "none"
  /\ ops = <<>>
  /\ UInit
  /\ reqCap = 1
  /\ chanCap = MakeChanLogger("blgr", reqCap).cap
  /\ ech = MakeChanLogger("blgr", reqCap).ech
  /\ ep = [p \in Producers |-> MakeChanLogger("blgr", reqCap).cl]
  /\ pc = [p \in Producers |-> "idle"]
  /\ msg = [p \in Producers |-> NoMsg]
  /\ cnt = [p \in Producers |-> 0]
  /\ cons = "idle"
  /\ lm = NoMsg
  /\ inF = {}
  /\ calls = [id \in MsgIds |-> NoCall]
  /\ sent = <<>>
  /\ received = <<>>
  /\ emitted = <<>>
  /\ nSetPri = 0
  /\ panicked = FALSE
  /\ closed = FALSE
  /\ dsrc = [p \in Producers |-> Kind(NoLogger)]

\* lgr.F(p, format, args...) on the LogLogger
LogLogger_F_op(p, in) ==
  /\ Len(ops) < MaxOps
  /\ sb' = LogLogger_F(pri, prefix, flags, sb, p, in.format, in.args)
  /\ ops' = Append(ops, Op("F", p, <<>>, in, sb' # sb))
  /\ UNCHANGED <<pri, prefix, flags, npri, ret, cvars, uvars>>

\* a SetId that leaves the flags of the log.Logger as they are
LogLogger_SetId_noflag(id) ==
  /\ Len(ops) < MaxOps
  /\ prefix' = id
  /\ ret' = "blgr"
  /\ ops' = Append(ops, Op("SetId", Emerg, id, NoInput, FALSE))
  /\ UNCHANGED <<pri, flags, sb, npri, cvars, uvars>>

\* lgr.SetId(id) on the LogLogger: Lmsgprefix is added to the flags and id
\* becomes the prefix of the log.Logger
LogLogger_SetId(id) ==
  /\ Len(ops) < MaxOps
  /\ flags' = flags \cup {"Lmsgprefix"}
  /\ prefix' = id
  /\ ret' = "blgr"
  /\ ops' = Append(ops, Op("SetId", Emerg, id, NoInput, FALSE))
  /\ UNCHANGED <<pri, sb, npri, cvars, uvars>>

\* a SetPriority that returns a new LogLogger with the priority
LogLogger_SetPriority_new(p) ==
  /\ Len(ops) < MaxOps
  /\ pri' = p
  /\ prefix' = LogLogMaker("nil").prefix
  /\ flags' = LogLogMaker("nil").flags
  /\ ret' = "blgr"
  /\ ops' = Append(ops, Op("SetPriority", p, <<>>, NoInput, FALSE))
  /\ UNCHANGED <<sb, npri, cvars, uvars>>

\* lgr.SetPriority(p) on the LogLogger
LogLogger_SetPriority(p) ==
  /\ Len(ops) < MaxOps
  /\ pri' = p
  /\ ret' = "blgr"
  /\ ops' = Append(ops, Op("SetPriority", p, <<>>, NoInput, FALSE))
  /\ UNCHANGED <<prefix, flags, sb, npri, cvars, uvars>>

\* lgr.F(p, format, args...) on the null logger: the body is empty
nullLogger_F(p, in) ==
  /\ Len(ops) < MaxOps
  /\ ops' = Append(ops, Op("nF", p, <<>>, in, FALSE))
  /\ UNCHANGED <<pri, prefix, flags, sb, npri, ret, cvars, uvars>>

\* lgr.SetId(id) on the null logger: returns v
nullLogger_SetId(id) ==
  /\ Len(ops) < MaxOps
  /\ ret' = "nlgr"
  /\ ops' = Append(ops, Op("nSetId", Emerg, id, NoInput, FALSE))
  /\ UNCHANGED <<pri, prefix, flags, sb, npri, cvars, uvars>>

\* a SetPriority of the null logger that drops the priority
nullLogger_SetPriority_drop(p) ==
  /\ Len(ops) < MaxOps
  /\ ret' = "nlgr"
  /\ ops' = Append(ops, Op("nSetPriority", p, <<>>, NoInput, FALSE))
  /\ UNCHANGED <<pri, prefix, flags, sb, npri, cvars, uvars>>

\* lgr.SetPriority(p) on the null logger: *v = nullLogger(pri), returns v
nullLogger_SetPriority(p) ==
  /\ Len(ops) < MaxOps
  /\ npri' = p
  /\ ret' = "nlgr"
  /\ ops' = Append(ops, Op("nSetPriority", p, <<>>, NoInput, FALSE))
  /\ UNCHANGED <<pri, prefix, flags, sb, cvars, uvars>>

NextLog ==
  \/ \E p \in Priorities : \E in \in LogInputs : LogLogger_F_op(p, in)
  \/ \E id \in Ids : LogLogger_SetId(id)
  \/ \E p \in Priorities : LogLogger_SetPriority(p)
  \/ \E p \in Priorities : \E in \in LogInputs : nullLogger_F(p, in)
  \/ \E id \in Ids : nullLogger_SetId(id)
  \/ \E p \in Priorities : nullLogger_SetPriority(p)

SpecLog == InitLog /\ [][NextLog]_vars

(* ---------------------------------------------------------------- claims *)
\* message id comes of an F call on an endpoint of the forwarding logger
Submitted(id) == calls[id].made /\ ~calls[id].ep.nil

\* the F call that made message id has returned
Returned(id) == Submitted(id) /\ ~(pc[id[1]] = "send" /\ msg[id[1]].id = id)

\* the number of positions of the sequence of messages q that hold message id
Count(q, id) == Cardinality({i \in DOMAIN q : q[i].id = id})

\* nothing is in flight: no producer is in F, the queue is empty and the
\* consumer holds no message
Drained == (\A p \in Producers : pc[p] = "idle") /\ ech = <<>> /\ cons = "idle"

\* every producer has made all its calls
AllCalled == \A p \in Producers : cnt[p] = MaxCalls

\* C1: with N producers calling F M times each and one consumer that
\* receives and emits, every submitted message is received and emitted
\* exactly once: a message whose F call returned is in exactly one of the
\* queue, the consumer's hands and the emitted ones, never twice; once
\* nothing is in flight the emitted messages are exactly the submitted ones,
\* N*M of them when all producers hold endpoints of the forwarding logger.
C1_ExactlyOnce ==
  /\ \A id \in MsgIds :
       /\ Count(emitted, id) <= 1
       /\ Cardinality({i \in DOMAIN received : received[i] = id}) <= 1
       /\ Count(emitted, id) = 1 => Submitted(id)
       /\ Returned(id) =>
            Count(ech, id) + Count(emitted, id)
              + (IF cons # "idle" /\ lm.id = id THEN 1 ELSE 0) = 1
  /\ Drained =>
       /\ {emitted[i].id : i \in DOMAIN emitted} = {id \in MsgIds : Submitted(id)}
       /\ Len(emitted) = Cardinality({id \in MsgIds : Submitted(id)})
  /\ (Drained /\ AllCalled /\ \A id \in MsgIds : ~calls[id].ep.nil) =>
       Len(emitted) = NProducers * MaxCalls

\* C1 witness: all N*M calls were made on endpoints of the forwarding logger,
\* through a queue of capacity 1, and all N*M messages have been emitted
C1_Witness ==
  /\ Drained /\ AllCalled
  /\ \A id \in MsgIds : Submitted(id)
  /\ chanCap = 1
  /\ Len(emitted) = NProducers * MaxCalls

\* C2: the messages of one producer are received in the order in which that
\* producer submitted them, whatever the other producers do.
C2_ProducerOrder ==
  \A i, j \in DOMAIN received :
    (i < j /\ received[i][1] = received[j][1]) => received[i][2] < received[j][2]

\* C2 witness: two messages of one producer were received with a message of
\* another producer between them
C2_Witness ==
  \E i, j, k \in DOMAIN received :
    /\ i < j /\ j < k
    /\ received[i][1] = received[k][1]
    /\ received[j][1] # received[i][1]

\* a step of producer p: it enters F, or its send completes
ProducerStep(p) == cnt'[p] # cnt[p] \/ pc'[p] # pc[p]

\* C3: the wrapped logger's F runs in the consumer's goroutine only: no
\* other context is ever inside it (so no two executions overlap), a line
\* is written to the sink only by the step that ends the consumer's Emit,
\* and no step of a producer writes to the sink.
C3_ConsumerOnly ==
  /\ [](inF \subseteq {Consumer})
  /\ [][sb' # sb => (cons = "inF" /\ cons' = "idle" /\ inF = {Consumer})]_vars
  /\ [][\A p \in Producers : ProducerStep(p) => sb' = sb]_vars

\* C3 witness: the consumer is inside the wrapped logger's F, about to write
\* a line, while a producer is inside chanLogger.F
C3_Witness ==
  /\ cons = "inF" /\ inF = {Consumer}
  /\ Enables(pri, lm.pri)
  /\ \E p \in Producers : pc[p] = "send"

\* C4: F on a non-nil endpoint takes no account of the threshold: every such
\* call, whatever its priority and the threshold, builds its message and
\* goes to the send, and the send puts exactly that one message in the queue.
C4_NoFilterAtSubmit ==
  /\ [][\A p \in Producers :
          (cnt'[p] # cnt[p] /\ ~ep[p].nil) =>
            /\ pc'[p] = "send"
            /\ msg'[p].id = <<p, cnt'[p]>>
            /\ msg'[p].pri = calls'[<<p, cnt'[p]>>].pri]_vars
  /\ [][\A p \in Producers :
          (pc[p] = "send" /\ pc'[p] = "idle") => ech' = Append(ech, msg[p])]_vars

\* C4 witness: a message whose priority the threshold did not enable when F
\* was called is in the queue
C4_Witness ==
  \E i \in DOMAIN ech :
    /\ ~Enables(calls[ech[i].id].thr, ech[i].pri)
    /\ ~Enables(pri, ech[i].pri)

\* C5: whether a queued message produces a line is decided by the wrapped
\* logger's threshold when Emit is called, not by the one in force when F
\* was called: each Emit wrote a line exactly when the threshold at that
\* moment enabled the message's priority.
C5_FilterAtEmit ==
  \A i \in DOMAIN emitted :
    emitted[i].wrote <=> Enables(emitted[i].thr, calls[emitted[i].id].pri)

\* C5 witness: a message submitted while the threshold enabled its priority
\* was emitted after the threshold was lowered, and produced no line
C5_Witness ==
  \E i \in DOMAIN emitted :
    /\ Enables(calls[emitted[i].id].thr, calls[emitted[i].id].pri)
    /\ ~emitted[i].wrote

\* the converse case of C5: a message submitted while the threshold did not
\* enable its priority produced a line
C5_WitnessConverse ==
  \E i \in DOMAIN emitted :
    /\ ~Enables(calls[emitted[i].id].thr, calls[emitted[i].id].pri)
    /\ emitted[i].wrote

\* the sink after the direct calls wrapped.F(pri, prefix + format, args) of
\* the first n emitted messages, made in drain order, each under the
\* threshold in force at its Emit
RECURSIVE DirectRun(_)
DirectRun(n) ==
  IF n = 0 THEN <<>>
  ELSE LET c == calls[emitted[n].id] IN
       LogLogger_F(emitted[n].thr, prefix, flags, DirectRun(n - 1),
                   c.pri, c.ep.pfx \o c.format, c.args)

\* C6: submitting through the forwarding logger and draining leaves the
\* sink as the same calls made directly on the wrapped logger, in drain
\* order, would leave it.
C6_EmitEqualsDirect == sb = DirectRun(Len(emitted))

\* C6 witness: two messages with arguments, one of them through a prefixed
\* endpoint, have been emitted and have written their lines
C6_Witness ==
  /\ Len(sb) >= 2
  /\ \E i \in DOMAIN emitted :
       emitted[i].wrote /\ calls[emitted[i].id].ep.pfx # <<>>
         /\ calls[emitted[i].id].args # <<>>

\* message m holds what the F call that made it was given
HoldsSubmitted(m) ==
  LET c == calls[m.id] IN
  /\ c.made
  /\ m.lgr = "blgr"
  /\ m.pri = c.pri
  /\ m.fmt = c.ep.pfx \o c.format
  /\ (c.ep.pfx = <<>> => m.fmt = c.format)
  /\ Len(m.args) = Len(c.args)
  /\ \A k \in DOMAIN c.args : m.args[k] = c.args[k]

C8_Capacity == chanCap = (IF reqCap < 1 THEN 1 ELSE reqCap)

\* C8 witness: a negative capacity was requested, and the queue holds one
\* message while a producer waits to send
C8_Witness ==
  /\ reqCap < 0
  /\ Len(ech) = 1
  /\ \E p \in Producers : pc[p] = "send"

\* C9: the queue never holds more messages than its capacity, and a producer
\* whose send finds the queue full stays in F, with nothing of its own added
\* to the queue, in every step that starts with the queue full.
C9_Backpressure ==
  /\ [](Len(ech) <= chanCap)
  /\ [][\A p \in Producers :
          (pc[p] = "send" /\ Len(ech) >= chanCap) =>
            (pc'[p] = "send" /\ Count(ech', msg[p].id) = 0)]_vars

\* C9 witness: a producer is in F at the send with the queue of capacity 2
\* full
C9_Witness ==
  /\ chanCap = 2
  /\ Len(ech) = chanCap
  /\ \E p \in Producers : pc[p] = "send"

\* the endpoint MakeChanLogger returned and the endpoints the producers hold
Endpoints == {MakeChanLogger("blgr", reqCap).cl} \cup {ep[p] : p \in Producers}

\* C10: Priority() on a forwarding endpoint, derived or not, returns the
\* wrapped logger's current threshold.
C10_PriorityDelegates ==
  \A v \in Endpoints : ~v.nil => chanLogger_Priority(v) = Returns(pri)

\* C10 witness: SetPriority changed the threshold after a prefixed endpoint
\* was derived
C10_Witness ==
  /\ nSetPri > 0 /\ pri # Warning
  /\ \E p \in Producers : ~ep[p].nil /\ ep[p].pfx # <<>>

\* the endpoint MakeChanLogger returned
BaseEndpoint == MakeChanLogger("blgr", reqCap).cl

\* the messages that exist: those being sent, those in the queue, and the
\* one the consumer holds
Messages ==
  {msg[p] : p \in {q \in Producers : pc[q] = "send"}}
    \cup {ech[i] : i \in DOMAIN ech}
    \cup (IF cons # "idle" THEN {lm} ELSE {})

\* C11: PrefixedChanLogger applied to an endpoint of the forwarding logger
\* gives an endpoint with the same channel and the same wrapped logger and
\* with the prefix asked for; the endpoint of a producer that derived none
\* is still the one MakeChanLogger returned; a message submitted through a
\* derived endpoint carries the prefix followed by the format, one submitted
\* through the endpoint of MakeChanLogger the format alone; and both kinds
\* go through the one queue.
C11_PrefixedEndpoint ==
  /\ \A p \in Producers :
       /\ dsrc[p] = Kind(BaseEndpoint) =>
            ep[p] = [type |-> "chanLogger", nil |-> FALSE, ech |-> BaseEndpoint.ech,
                     pfx |-> Pfx(p), lgr |-> BaseEndpoint.lgr]
       /\ dsrc[p] = Kind(NoLogger) => ep[p] = BaseEndpoint
  /\ \A m \in Messages :
       m.fmt = IF dsrc[m.id[1]] = Kind(BaseEndpoint)
               THEN Pfx(m.id[1]) \o calls[m.id].format
               ELSE calls[m.id].format
  /\ \A id \in MsgIds :
       Returned(id) =>
         Count(ech, id) + Count(emitted, id)
           + (IF cons # "idle" /\ lm.id = id THEN 1 ELSE 0) = 1

\* C11 witness: the queue holds a message submitted through a derived
\* endpoint and, behind it, one submitted through the endpoint of
\* MakeChanLogger
C11_Witness ==
  /\ Len(ech) = 2
  /\ dsrc[ech[1].id[1]] = Kind(BaseEndpoint)
  /\ ech[1].fmt = Pfx(ech[1].id[1]) \o calls[ech[1].id].format
  /\ dsrc[ech[2].id[1]] = Kind(NoLogger)
  /\ ech[2].fmt = calls[ech[2].id].format

\* the messages of producer p that are somewhere: being sent, queued, held,
\* received or emitted
Traces(p) ==
  {m.id : m \in {n \in Messages : n.id[1] = p}}
    \cup {sent[i] : i \in {j \in DOMAIN sent : sent[j][1] = p}}
    \cup {received[i] : i \in {j \in DOMAIN received : received[j][1] = p}}
    \cup {emitted[i].id : i \in {j \in DOMAIN emitted : emitted[j].id[1] = p}}

\* C12: PrefixedChanLogger applied to a logger that is no chanLogger returns
\* the nil endpoint, without failure; an F call on the nil endpoint returns
\* in the same step, without failure, whatever the state of the queue, and
\* leaves the queue, the sink and every message as they were.
C12_NilEndpoint ==
  /\ [](\A p \in Producers :
          dsrc[p] = Kind(LogLoggerRef) =>
            (ep[p] = NilChanLogger /\ pc[p] = "idle" /\ Traces(p) = {}))
  /\ [][\A p \in Producers :
          (dsrc'[p] # dsrc[p] /\ dsrc'[p] = Kind(LogLoggerRef)) => ~panicked']_vars
  /\ [][\A p \in Producers :
          (ep[p].nil /\ cnt'[p] # cnt[p]) =>
            /\ ~panicked'
            /\ pc'[p] = "idle"
            /\ UNCHANGED <<ech, sb, msg, sent, received, emitted>>]_vars

\* C12 witness: a producer has made all its calls on the nil endpoint and is
\* not in F, while the queue is full and another producer waits to send
C12_Witness ==
  \E p \in Producers :
    /\ dsrc[p] = Kind(LogLoggerRef)
    /\ cnt[p] = MaxCalls /\ pc[p] = "idle"
    /\ Len(ech) = chanCap
    /\ \E q \in Producers : pc[q] = "send"

\* C13: the channel is open in every reachable state: no send finds it
\* closed, and the consumer never receives the nil message of a closed
\* channel.
C13_NeverClosed ==
  /\ ~closed
  /\ cons # "idle" => lm.id \in MsgIds

\* C13 witness: MakeChanLogger, PrefixedChanLogger, F and Emit have all
\* acted, every message has been emitted, and the channel is open
C13_Witness ==
  /\ ~closed
  /\ Drained /\ AllCalled
  /\ \E p \in Producers : dsrc[p] = Kind(BaseEndpoint)
  /\ Len(emitted) >= MaxCalls

(* ------------------------------------------ claims on the owner's loggers *)
\* the index of the last operation named op among the first i - 1 of ops,
\* or 0 when there is none
LastIndex(i, op) ==
  LET S == {j \in 1..(i - 1) : ops[j].op = op}
  IN IF S = {} THEN 0 ELSE CHOOSE j \in S : \A k \in S : k <= j

\* threshold and identifier of the LogLogger, and threshold of the null
\* logger, when operation i began, as the operations before it set them
ThrAt(i) ==
  IF LastIndex(i, "SetPriority") = 0 THEN Warning
  ELSE ops[LastIndex(i, "SetPriority")].pri
IdAt(i) ==
  IF LastIndex(i, "SetId") = 0 THEN <<>> ELSE ops[LastIndex(i, "SetId")].id
NullThrAt(i) ==
  IF LastIndex(i, "nSetPriority") = 0 THEN Warning
  ELSE ops[LastIndex(i, "nSetPriority")].pri

\* the F calls on the LogLogger, and those among them that wrote
FCalls == {i \in DOMAIN ops : ops[i].op = "F"}
Wrote == {i \in FCalls : ops[i].wrote}

\* the line F call i wrote
LineOf(i) == sb[Cardinality({j \in Wrote : j <= i})]

\* this step is an operation named op
Did(op) == Len(ops') = Len(ops) + 1 /\ ops'[Len(ops')].op = op

\* date and time as a log.Logger with LstdFlags writes them
Header == <<"<date> ", "<time> ">>

\* the markers, in the order of the priorities
Marker(p) == <<"!", "C", "E", "W", "N", "I", "D">>[p + 1]

\* C14: an F call on a LogLogger of threshold T with priority P appends one
\* line, ended by its only newline, when T.Enables(P) and leaves the output as
\* it was otherwise; the lines written are as many as the F calls whose
\* priority the threshold of the time enabled.
C14_OneLineIffEnabled ==
  /\ [](/\ Len(sb) = Cardinality({i \in FCalls : Enables(ThrAt(i), ops[i].pri)})
        /\ \A k \in DOMAIN sb :
             {n \in DOMAIN sb[k] : sb[k][n] = "\n"} = {Len(sb[k])})
  /\ [][Did("F") =>
          IF Enables(pri, ops'[Len(ops')].pri)
          THEN Len(sb') = Len(sb) + 1 /\ SubSeq(sb', 1, Len(sb)) = sb
          ELSE sb' = sb]_vars

\* C14 witness: under a threshold other than Warning one F call wrote and
\* another did not
C14_Witness ==
  \E i, j \in FCalls :
    /\ ThrAt(i) # Warning /\ ThrAt(j) # Warning
    /\ ops[i].wrote /\ ~ops[j].wrote
    /\ Len(sb) = 1

\* C15 as stated: every line is the identifier, the marker of the call's
\* priority in square brackets, a space and the formatted message.
C15_LineIsIdMarkerMessage ==
  \A i \in Wrote :
    LineOf(i) = IdAt(i) \o <<"[", Marker(ops[i].pri), "]", " ">>
                  \o Sprintf(ops[i].format, ops[i].args) \o <<"\n">>

\* C15: every line of a LogLogger is the date and time header of its
\* log.Logger, then the identifier, then the marker of the priority passed to
\* F in square brackets, a space, the formatted message and a newline; the
\* marker is ! C E W N I D for Emerg .. Debug.
C15_LineFormat ==
  \A i \in Wrote :
    LineOf(i) = Header \o IdAt(i) \o <<"[", Marker(ops[i].pri), "]", " ">>
                  \o Sprintf(ops[i].format, ops[i].args) \o <<"\n">>

\* C15 witness: a line with an identifier, written for a priority that is
\* not the threshold, from a format with a verb
C15_Witness ==
  \E i \in Wrote :
    /\ ops[i].pri # ThrAt(i)
    /\ IdAt(i) # <<>>
    /\ ops[i].args # <<>>

C17_NullLogger ==
  /\ [](/\ nullLogger_Priority(npri) = NullThrAt(Len(ops) + 1)
        /\ (ops # <<>> /\ ops[Len(ops)].op = "nSetPriority") =>
             (ret = "nlgr" /\ Logger_Priority(ret) = Returns(ops[Len(ops)].pri)))
  /\ [][(Did("nF") \/ Did("nSetId")) => (sb' = sb /\ npri' = npri)]_vars
  /\ [][Did("nSetPriority") => sb' = sb]_vars

\* C17 witness: the null logger was set to a threshold other than Warning
\* and then given an F call that threshold enables and a SetId
C17_Witness ==
  /\ Len(ops) = 3
  /\ ops[1].op = "nSetPriority" /\ ops[1].pri # Warning
  /\ ops[2].op = "nF" /\ Enables(ops[1].pri, ops[2].pri)
  /\ ops[3].op = "nSetId"
  /\ npri = ops[1].pri /\ sb = <<>>

\* C18: for every owner LogLogMaker and NullLogMaker give a logger of
\* threshold Warning; until its first SetPriority a logger has threshold
\* Warning, and a LogLogger writes the F calls of priority Emerg, Crit, Error
\* and Warning and drops those of Notice, Info and Debug.
C18_DefaultWarning ==
  /\ \A o \in Owners :
       LogLogMaker(o).pri = Warning /\ nullLogger_Priority(NullLogMaker(o)) = Warning
  /\ LastIndex(Len(ops) + 1, "SetPriority") = 0 =>
       /\ Logger_Priority("blgr") = Returns(Warning)
       /\ \A i \in FCalls :
            ops[i].wrote <=> ops[i].pri \in {Emerg, Crit, Error, Warning}
  /\ LastIndex(Len(ops) + 1, "nSetPriority") = 0 =>
       Logger_Priority("nlgr") = Returns(Warning)

\* C18 witness: no SetPriority was made, and of the F calls on the LogLogger
\* one of priority Warning wrote and one of priority Notice did not
C18_Witness ==
  /\ LastIndex(Len(ops) + 1, "SetPriority") = 0
  /\ LastIndex(Len(ops) + 1, "nSetPriority") = 0
  /\ \E i, j \in FCalls :
       /\ ops[i].pri = Warning /\ ops[i].wrote
       /\ ops[j].pri = Notice /\ ~ops[j].wrote

\* C19: the threshold of a LogLogger is the priority of its latest
\* SetPriority; SetPriority returns the logger itself, so that Priority() of
\* the result is that priority; F and SetId leave the threshold as it is,
\* and SetPriority leaves the identifier and the output as they are.
C19_SetPriorityFrame ==
  /\ [](/\ Logger_Priority("blgr") = Returns(ThrAt(Len(ops) + 1))
        /\ (ops # <<>> /\ ops[Len(ops)].op = "SetPriority") =>
             (ret = "blgr" /\ Logger_Priority(ret) = Returns(ops[Len(ops)].pri)))
  /\ [][(Did("F") \/ Did("SetId")) => pri' = pri]_vars
  /\ [][Did("SetPriority") => UNCHANGED <<prefix, flags, sb>>]_vars

\* C19 witness: SetPriority to another threshold was made on a LogLogger
\* that had an identifier and had written a line
C19_Witness ==
  /\ ops # <<>> /\ ops[Len(ops)].op = "SetPriority"
  /\ pri = ops[Len(ops)].pri /\ pri # Warning
  /\ prefix # <<>> /\ sb # <<>>

\* C20: a.Enables(b) is true exactly when the number of b is at most the
\* number of a: every priority enables itself, Info enables Crit, Warning
\* does not enable Debug; and an F call on a LogLogger wrote exactly when the
\* number of its priority was at most that of the threshold.
C20_Enables ==
  /\ \A a, b \in Priorities : Enables(a, b) <=> b <= a
  /\ \A a \in Priorities : Enables(a, a)
  /\ Enables(Info, Crit)
  /\ ~Enables(Warning, Debug)
  /\ \A i \in FCalls : ops[i].wrote <=> ops[i].pri <= ThrAt(i)

\* C20 witness: Debug was submitted at threshold Warning and dropped, and
\* Crit at threshold Info and written
C20_Witness ==
  \E i, j \in FCalls :
    /\ ThrAt(i) = Warning /\ ops[i].pri = Debug /\ ~ops[i].wrote
    /\ ThrAt(j) = Info /\ ops[j].pri = Crit /\ ops[j].wrote

(* ------------------------------------------------- priorities and texts *)
\* A text is the sequence of its characters.
UpperChars ==
  <<"A", "B", "C", "D", "E", "F", "G", "H", "I", "J", "K", "L", "M",
    "N", "O", "P", "Q", "R", "S", "T", "U", "V", "W", "X", "Y", "Z">>
LowerChars ==
  <<"a", "b", "c", "d", "e", "f", "g", "h", "i", "j", "k", "l", "m",
    "n", "o", "p", "q", "r", "s", "t", "u", "v", "w", "x", "y", "z">>

\* strings.ToLower, on letters A-Z
ToLowerChar(c) ==
  IF \E i \in DOMAIN UpperChars : UpperChars[i] = c
  THEN LowerChars[CHOOSE i \in DOMAIN UpperChars : UpperChars[i] = c]
  ELSE c
ToLower(s) == [i \in 1..Len(s) |-> ToLowerChar(s[i])]

\* Priority.String
Priority_String(p) ==
  CASE p = Emerg -> <<"E", "m", "e", "r", "g">>
    [] p = Crit -> <<"C", "r", "i", "t">>
    [] p = Error -> <<"E", "r", "r", "o", "r">>
    [] p = Warning -> <<"W", "a", "r", "n", "i", "n", "g">>
    [] p = Notice -> <<"N", "o", "t", "i", "c", "e">>
    [] p = Info -> <<"I", "n", "f", "o">>
    [] p = Debug -> <<"D", "e", "b", "u", "g">>
    [] OTHER -> <<"panic: unhandled Priority">>

\* a ParsePriority without the long and short synonyms
ParsePriority_nosynonyms(s) ==
  LET l == ToLower(s) IN
    CASE l = <<"e", "m", "e", "r", "g">> -> [pri |-> Emerg, ok |-> TRUE]
      [] l = <<"c", "r", "i", "t">> -> [pri |-> Crit, ok |-> TRUE]
      [] l = <<"e", "r", "r", "o", "r">> -> [pri |-> Error, ok |-> TRUE]
      [] l = <<"w", "a", "r", "n", "i", "n", "g">> -> [pri |-> Warning, ok |-> TRUE]
      [] l = <<"n", "o", "t", "i", "c", "e">> -> [pri |-> Notice, ok |-> TRUE]
      [] l = <<"i", "n", "f", "o">> -> [pri |-> Info, ok |-> TRUE]
      [] l = <<"d", "e", "b", "u", "g">> -> [pri |-> Debug, ok |-> TRUE]
      [] OTHER -> [pri |-> 0, ok |-> FALSE]

\* a ParsePriority that compares the text as given
ParsePriority_nofold(s) ==
    CASE s = <<"e", "m", "e", "r", "g", "e", "n", "c", "y">> -> [pri |-> Emerg, ok |-> TRUE]
      [] s = <<"e", "m", "e", "r", "g">> -> [pri |-> Emerg, ok |-> TRUE]
      [] s = <<"c", "r", "i", "t", "i", "c", "a", "l">> -> [pri |-> Crit, ok |-> TRUE]
      [] s = <<"c", "r", "i", "t">> -> [pri |-> Crit, ok |-> TRUE]
      [] s = <<"e", "r", "r", "o", "r">> -> [pri |-> Error, ok |-> TRUE]
      [] s = <<"w", "a", "r", "n">> -> [pri |-> Warning, ok |-> TRUE]
      [] s = <<"w", "a", "r", "n", "i", "n", "g">> -> [pri |-> Warning, ok |-> TRUE]
      [] s = <<"n", "o", "t", "i", "c", "e">> -> [pri |-> Notice, ok |-> TRUE]
      [] s = <<"i", "n", "f", "o">> -> [pri |-> Info, ok |-> TRUE]
      [] s = <<"d", "e", "b", "u", "g">> -> [pri |-> Debug, ok |-> TRUE]
      [] OTHER -> [pri |-> 0, ok |-> FALSE]

\* a ParsePriority over priorities that count from 1
ParsePriority_from1(s) ==
  LET r == ParsePriority_nofold(ToLower(s))
  IN [pri |-> IF r.ok THEN r.pri + 1 ELSE 0, ok |-> r.ok]

\* ParsePriority: the switch on strings.ToLower(s); pri keeps its zero value
\* in the default case
ParsePriority(s) ==
  LET l == ToLower(s) IN
    CASE l = <<"e", "m", "e", "r", "g", "e", "n", "c", "y">> -> [pri |-> Emerg, ok |-> TRUE]
      [] l = <<"e", "m", "e", "r", "g">> -> [pri |-> Emerg, ok |-> TRUE]
      [] l = <<"c", "r", "i", "t", "i", "c", "a", "l">> -> [pri |-> Crit, ok |-> TRUE]
      [] l = <<"c", "r", "i", "t">> -> [pri |-> Crit, ok |-> TRUE]
      [] l = <<"e", "r", "r", "o", "r">> -> [pri |-> Error, ok |-> TRUE]
      [] l = <<"w", "a", "r", "n">> -> [pri |-> Warning, ok |-> TRUE]
      [] l = <<"w", "a", "r", "n", "i", "n", "g">> -> [pri |-> Warning, ok |-> TRUE]
      [] l = <<"n", "o", "t", "i", "c", "e">> -> [pri |-> Notice, ok |-> TRUE]
      [] l = <<"i", "n", "f", "o">> -> [pri |-> Info, ok |-> TRUE]
      [] l = <<"d", "e", "b", "u", "g">> -> [pri |-> Debug, ok |-> TRUE]
      [] OTHER -> [pri |-> 0, ok |-> FALSE]

\* an error value: the error it wraps and its message
NoError == [wraps |-> "nil", msg |-> <<>>]
\* errors.New("invalid priority")
ErrInvalidPriority == [wraps |-> "ErrInvalidPriority", msg |-> <<"invalid priority">>]
\* fmt.Errorf("%w: %s", ErrInvalidPriority, s)
Errorf(err, s) == [wraps |-> err.wraps, msg |-> err.msg \o <<": ">> \o s]

\* a Set that returns ErrInvalidPriority itself
Priority_Set_bare(p, s) ==
  LET r == ParsePriority(s) IN
  IF r.ok
  THEN [p |-> r.pri, err |-> NoError]
  ELSE [p |-> p, err |-> ErrInvalidPriority]

\* a Set that stores what ParsePriority returned, whether ok or not
Priority_Set_store(p, s) ==
  LET r == ParsePriority(s) IN
  [p |-> r.pri, err |-> IF r.ok THEN NoError ELSE Errorf(ErrInvalidPriority, s)]

\* Priority.Set: the receiver after the call, and the error returned
Priority_Set(p, s) ==
  LET r == ParsePriority(s) IN
  IF r.ok
  THEN [p |-> r.pri, err |-> NoError]
  ELSE [p |-> p, err |-> Errorf(ErrInvalidPriority, s)]


\* IsSet: the variable holds something other than the zero value
IsSet(p) == p # 0

\* MarshalText: the text of String() for a priority that is set, otherwise
\* ErrInvalidPriority
MarshalText(p) ==
  IF IsSet(p)
  THEN [out |-> Priority_String(p), err |-> NoError]
  ELSE [out |-> <<>>, err |-> ErrInvalidPriority]

\* UnmarshalText: Set of the text
UnmarshalText(p, text) == Priority_Set(p, text)

\* the names of the priorities, in lower case, each with its priority
NameTable ==
  {<<<<"e", "m", "e", "r", "g", "e", "n", "c", "y">>, Emerg>>,
   <<<<"e", "m", "e", "r", "g">>, Emerg>>,
   <<<<"c", "r", "i", "t", "i", "c", "a", "l">>, Crit>>,
   <<<<"c", "r", "i", "t">>, Crit>>,
   <<<<"e", "r", "r", "o", "r">>, Error>>,
   <<<<"w", "a", "r", "n">>, Warning>>,
   <<<<"w", "a", "r", "n", "i", "n", "g">>, Warning>>,
   <<<<"n", "o", "t", "i", "c", "e">>, Notice>>,
   <<<<"i", "n", "f", "o">>, Info>>,
   <<<<"d", "e", "b", "u", "g">>, Debug>>}
Names == {e[1] : e \in NameTable}

\* texts that name no priority
NotNames ==
  {<<"w", "r", "n">>,
   <<"f", "a", "t", "a", "l">>,
   <<"i", "m", "p", "o", "r", "t", "a", "n", "t">>,
   <<>>,
   <<"e", "m", "e", "r">>,
   <<"w", "a", "r", "n", "i", "n", "g", "s">>,
   <<" ", "w", "a", "r", "n">>,
   <<"e", "r", "r", "0", "r">>}

\* strings.ToUpper of a letter a-z
ToUpperChar(c) ==
  IF \E i \in DOMAIN LowerChars : LowerChars[i] = c
  THEN UpperChars[CHOOSE i \in DOMAIN LowerChars : LowerChars[i] = c]
  ELSE c

\* w with the letters at the positions in S in upper case
Mix(w, S) == [i \in 1..Len(w) |-> IF i \in S THEN ToUpperChar(w[i]) ELSE w[i]]

\* w in every mix of cases of its first MaxMix letters, and in upper case
Mixes(w) ==
  {Mix(w, S) : S \in SUBSET {i \in 1..Len(w) : i <= MaxMix}}
    \cup {Mix(w, 1..Len(w))}

\* the texts handed to ParsePriority, Set and UnmarshalText
Texts == UNION {Mixes(w) : w \in Names} \cup NotNames

\* the variables of the loggers
lgvars == <<pri, prefix, flags, sb>>

\* a record of pop
Pop(op, in, r, ok, err, out) ==
  [op |-> op, in |-> in, pri |-> r, ok |-> ok, wraps |-> err.wraps,
   msg |-> err.msg, out |-> out]

\* a Priority variable at its zero value; the loggers stay unused
InitPri == InitLog

\* pri, ok := ParsePriority(s)
ParsePriority_op(s) ==
  /\ LET r == ParsePriority(s)
     IN pop' = Pop("ParsePriority", s, r.pri, r.ok, NoError, <<>>)
  /\ UNCHANGED <<pv, lgvars, cvars, lvars, restP>>

\* err := p.Set(s)
Priority_Set_op(s) ==
  /\ LET r == Priority_Set(pv, s)
     IN pv' = r.p /\ pop' = Pop("Set", s, pv, FALSE, r.err, <<>>)
  /\ UNCHANGED <<lgvars, cvars, lvars, restP>>

\* p.String()
Priority_String_op ==
  /\ pop' = Pop("String", <<>>, pv, FALSE, NoError, Priority_String(pv))
  /\ UNCHANGED <<pv, lgvars, cvars, lvars, restP>>

\* b, err := p.MarshalText(), with p.IsSet()
MarshalText_op ==
  /\ pop' = Pop("MarshalText", <<>>, pv, IsSet(pv), MarshalText(pv).err,
                MarshalText(pv).out)
  /\ UNCHANGED <<pv, lgvars, cvars, lvars, restP>>

\* err := p.UnmarshalText(text)
UnmarshalText_op(text) ==
  /\ LET r == UnmarshalText(pv, text)
     IN pv' = r.p /\ pop' = Pop("UnmarshalText", text, pv, FALSE, r.err, <<>>)
  /\ UNCHANGED <<lgvars, cvars, lvars, restP>>

NextPri ==
  \/ \E s \in Texts : ParsePriority_op(s)
  \/ \E s \in Texts : Priority_Set_op(s)
  \/ Priority_String_op
  \/ MarshalText_op
  \/ \E s \in Texts : UnmarshalText_op(s)

SpecPri == InitPri /\ [][NextPri]_vars


(* ------------------------------------- claims on priorities and texts *)
\* s is w with each letter in either case
Folds(s, w) ==
  /\ Len(s) = Len(w)
  /\ \A i \in 1..Len(w) : s[i] = w[i] \/ s[i] = ToUpperChar(w[i])

\* s names a priority; the priorities s names
Named(s) == \E e \in NameTable : Folds(s, e[1])
Denoted(s) == {e[2] : e \in {f \in NameTable : Folds(s, f[1])}}

\* C21: ParsePriority of a text that is emerg, emergency, crit, critical,
\* error, warn, warning, notice, info or debug in some mix of cases returns
\* the priority of that name and true; of any other text, such as "wrn", it
\* returns false.
C21_ParsePriority ==
  /\ ~ParsePriority(<<"w", "r", "n">>).ok
  /\ pop.op = "ParsePriority" =>
       IF Named(pop.in)
       THEN pop.ok /\ Denoted(pop.in) = {pop.pri}
       ELSE ~pop.ok

\* C21 witness: ParsePriority was given EmErgency
C21_Witness ==
  /\ pop.op = "ParsePriority"
  /\ pop.in = <<"E", "m", "E", "r", "g", "e", "n", "c", "y">>
  /\ pop.ok /\ pop.pri = Emerg

\* C22: ParsePriority of the text String() gives for a priority returns that
\* priority and true, for each of the seven.
C22_StringParses ==
  /\ \A p \in Priorities :
       ParsePriority(Priority_String(p)) = [pri |-> p, ok |-> TRUE]
  /\ pop.op = "String" => ParsePriority(pop.out) = [pri |-> pv, ok |-> TRUE]

\* C22 witness: String() was called on Debug
C22_Witness ==
  /\ pop.op = "String" /\ pv = Debug
  /\ pop.out = <<"D", "e", "b", "u", "g">>

\* C23: Set of a text that names a priority stores that priority and returns
\* no error; Set of any other text s returns an error that wraps
\* ErrInvalidPriority and reads "invalid priority: s"; no operation returns
\* another error.
C23_SetError ==
  /\ pop.wraps \in {"nil", "ErrInvalidPriority"}
  /\ pop.op = "Set" =>
       IF Named(pop.in)
       THEN pop.wraps = "nil" /\ Denoted(pop.in) = {pv}
       ELSE /\ pop.wraps = "ErrInvalidPriority"
            /\ pop.msg = <<"invalid priority", ": ">> \o pop.in

\* C23 witness: a variable holding Debug was given Set("fatal")
C23_Witness ==
  /\ pop.op = "Set" /\ pop.in = <<"f", "a", "t", "a", "l">>
  /\ pop.wraps = "ErrInvalidPriority"
  /\ pv = Debug

\* C26: the zero value of Priority is not set and MarshalText of it fails
\* with ErrInvalidPriority; after UnmarshalText of a text that names a
\* priority the variable holds that priority and MarshalText returns the
\* text of String(); UnmarshalText of any other text returns an error that
\* wraps ErrInvalidPriority and carries the text.
C26_MarshalText ==
  /\ ~IsSet(0)
  /\ MarshalText(0).err.wraps = "ErrInvalidPriority"
  /\ pop.op = "UnmarshalText" =>
       IF Named(pop.in)
       THEN /\ pop.wraps = "nil" /\ Denoted(pop.in) = {pv}
            /\ MarshalText(pv) = [out |-> Priority_String(pv), err |-> NoError]
       ELSE /\ pop.wraps = "ErrInvalidPriority"
            /\ pop.msg = <<"invalid priority", ": ">> \o pop.in


(* ------------------------------------------ order of arrival at the queue *)
\* C27: the messages the consumer has received are, in order, the first of
\* those whose sends completed, whichever endpoint they were sent through,
\* and the messages emitted are, in order, the first of those received.
C27_ArrivalOrder ==
  /\ Len(received) <= Len(sent)
  /\ received = SubSeq(sent, 1, Len(received))
  /\ Len(emitted) <= Len(received)
  /\ [i \in 1..Len(emitted) |-> emitted[i].id] = SubSeq(received, 1, Len(emitted))

\* C27 witness: the consumer received and emitted a message of the second
\* producer, sent through a derived endpoint, before one of the first
\* producer, sent through the endpoint of MakeChanLogger, and then another
\* of the second
C27_Witness ==
  /\ Len(emitted) >= 3
  /\ emitted[1].id[1] = 2 /\ emitted[2].id[1] = 1 /\ emitted[3].id[1] = 2
  /\ dsrc[2] = Kind(BaseEndpoint) /\ dsrc[1] = Kind(NoLogger)


(* ------------------------------------------------- the nil endpoint *)
\* C29: on the endpoint PrefixedChanLogger returns for a logger that is no
\* chanLogger both operations of ImmutableLogger complete without panic:
\* Priority() returns a priority, and an F call is over in one step.
C29_NilEndpointNoOp ==
  \A p \in Producers :
    dsrc[p] = Kind(LogLoggerRef) =>
      /\ ~chanLogger_Priority(ep[p]).panic
      /\ pc[p] = "idle"


(* ----------------------------------------------------- Logf functions *)
\* MakePriWrapper: the function value closes over lgr and pri
MakePriWrapper(lgr, p) == [lgr |-> lgr, pri |-> p]

\* a MakePriPr whose D logs at Info
MakePriPr_shifted(lgr) ==
  [Em |-> MakePriWrapper(lgr, Emerg),
   C |-> MakePriWrapper(lgr, Crit),
   E |-> MakePriWrapper(lgr, Error),
   W |-> MakePriWrapper(lgr, Warning),
   N |-> MakePriWrapper(lgr, Notice),
   I |-> MakePriWrapper(lgr, Info),
   D |-> MakePriWrapper(lgr, Info)]

\* MakePriPr
MakePriPr(lgr) ==
  [Em |-> MakePriWrapper(lgr, Emerg),
   C |-> MakePriWrapper(lgr, Crit),
   E |-> MakePriWrapper(lgr, Error),
   W |-> MakePriWrapper(lgr, Warning),
   N |-> MakePriWrapper(lgr, Notice),
   I |-> MakePriWrapper(lgr, Info),
   D |-> MakePriWrapper(lgr, Debug)]

\* the fields of PriPr
PriPrFields == {"Em", "C", "E", "W", "N", "I", "D"}

\* an entry of wcalls
WCall(f, in) == [field |-> f, format |-> in.format, args |-> in.args]

\* a LogLogger with SetId("ID ") and SetPriority(Debug) or none, a
\* forwarding logger on it of capacity 2, the first producer with a
\* prefixed endpoint
InitWrap ==
  /\ pri \in {LogLogMaker("nil").pri, Debug}
  /\ prefix = <<"ID ">>
  /\ flags = LogLogMaker("nil").flags \cup {"Lmsgprefix"}
  /\ sb = <<>>
  /\ reqCap = 2
  /\ chanCap = MakeChanLogger("blgr", reqCap).cap
  /\ ech = MakeChanLogger("blgr", reqCap).ech
  /\ ep = [p \in Producers |->
             IF p = 1
             THEN PrefixedChanLogger(MakeChanLogger("blgr", reqCap).cl, Pfx(p))
             ELSE MakeChanLogger("blgr", reqCap).cl]
  /\ dsrc = [p \in Producers |->
               IF p = 1 THEN Kind(MakeChanLogger("blgr", reqCap).cl)
               ELSE Kind(NoLogger)]
  /\ pc = [p \in Producers |-> "idle"]
  /\ msg = [p \in Producers |-> NoMsg]
  /\ cnt = [p \in Producers |-> 0]
  /\ cons = "idle"
  /\ lm = NoMsg
  /\ inF = {}
  /\ calls = [id \in MsgIds |-> NoCall]
  /\ sent = <<>>
  /\ received = <<>>
  /\ emitted = <<>>
  /\ nSetPri = 0
  /\ panicked = FALSE
  /\ closed = FALSE
  /\ npri = Warning
  /\ ret = "none"
  /\ ops = <<>>
  /\ UInit

\* lpr.f(format, args...) with lpr = MakePriPr(lgr) and lgr the LogLogger,
\* called by the goroutine that owns the logger: lgr.F(pri, format, args...)
Logf_LogLogger(f, in) ==
  /\ ~panicked
  /\ cons = "idle"
  /\ Len(wcalls[0]) < MaxWrap
  /\ LET w == MakePriPr(LogLoggerRef)[f]
     IN sb' = LogLogger_F(pri, prefix, flags, sb, w.pri, in.format, in.args)
  /\ wcalls' = [wcalls EXCEPT ![0] = Append(@, WCall(f, in))]
  /\ UNCHANGED <<pri, prefix, flags, cvars, lvars, restW>>

\* lpr.f(format, args...) with lpr = MakePriPr(ep[p]), called by producer p:
\* chanLogger.F(pri, format, args...) up to its send
Logf_chanLogger(p, f, in) ==
  /\ ~panicked
  /\ pc[p] = "idle"
  /\ Len(wcalls[p]) < MaxWrap
  /\ cnt[p] < MaxCalls
  /\ LET w == MakePriPr(ep[p])[f]
     IN /\ cnt' = [cnt EXCEPT ![p] = @ + 1]
        /\ calls' = [calls EXCEPT ![<<p, cnt[p] + 1>>] =
                        [made |-> TRUE, ep |-> w.lgr, pri |-> w.pri,
                         format |-> in.format, args |-> in.args, thr |-> pri]]
        /\ IF w.lgr.nil
           THEN UNCHANGED <<pc, msg>>
           ELSE /\ pc' = [pc EXCEPT ![p] = "send"]
                /\ msg' = [msg EXCEPT ![p] =
                             Emittable(w.lgr, <<p, cnt[p] + 1>>, w.pri,
                                       in.format, in.args)]
  /\ wcalls' = [wcalls EXCEPT ![p] = Append(@, WCall(f, in))]
  /\ UNCHANGED <<lgvars, reqCap, chanCap, ech, ep, cons, lm, inF, sent, received,
                 emitted, nSetPri, panicked, closed, dsrc, lvars, restW>>

NextWrap ==
  \/ \E f \in PriPrFields : \E in \in LogInputs : Logf_LogLogger(f, in)
  \/ \E p \in Producers : \E f \in PriPrFields : \E in \in LogInputs :
       Logf_chanLogger(p, f, in)
  \/ \E p \in Producers : chanLogger_F_send(p)
  \/ Recv
  \/ Emit_begin
  \/ Emit_end

SpecWrap == InitWrap /\ [][NextWrap]_vars

\* the priority each field of PriPr is to log at
BoundPri(f) ==
  CASE f = "Em" -> Emerg
    [] f = "C" -> Crit
    [] f = "E" -> Error
    [] f = "W" -> Warning
    [] f = "N" -> Notice
    [] f = "I" -> Info
    [] f = "D" -> Debug

\* C24: a call of a field of MakePriPr(lgr) does what lgr.F does at the
\* priority of the field with the format and arguments of the call: on the
\* LogLogger it changes the output as F does and nothing else; on a
\* forwarding endpoint it makes the message F makes, goes to the send, and
\* writes nothing.
C24_LogfIsF ==
  /\ [](\A m \in Messages :
          LET c == wcalls[m.id[1]][m.id[2]]
          IN m = Emittable(ep[m.id[1]], m.id, BoundPri(c.field), c.format, c.args))
  /\ [][\A p \in Producers :
          wcalls'[p] # wcalls[p] =>
            (pc'[p] = "send" /\ UNCHANGED <<pri, prefix, flags, sb, ech>>)]_vars
  /\ [][wcalls'[0] # wcalls[0] =>
          LET c == wcalls'[0][Len(wcalls'[0])]
          IN /\ sb' = LogLogger_F(pri, prefix, flags, sb, BoundPri(c.field),
                                  c.format, c.args)
             /\ UNCHANGED <<pri, prefix, flags, ech, msg, pc>>]_vars

\* C24 witness: at threshold Debug the owner's D call wrote a line, and the
\* D call of the producer with the prefixed endpoint was emitted as a line
C24_Witness ==
  /\ pri = Debug
  /\ Len(wcalls[0]) = 1 /\ wcalls[0][1].field = "D"
  /\ Len(wcalls[1]) = 1 /\ wcalls[1][1].field = "D"
  /\ \E i \in DOMAIN emitted : emitted[i].id = <<1, 1>> /\ emitted[i].wrote
  /\ Len(sb) = 2


(* ------------------------------------------- the service of the example *)
\* the subservices ChanService.main starts
SubServices == 2
\* the capacity asked of MakeChanLogger
LogCap == 2
\* the capacity of the channel of exit notifications
SigCap == 2

Subs == 1..SubServices

\* the calls of subMain, in order
SubMainCalls ==
  <<[field |-> "N", format |-> <<"Started subservice">>, args |-> <<>>],
    [field |-> "I", format |-> <<"Notified service">>, args |-> <<>>],
    [field |-> "D", format |-> <<"Debug">>, args |-> <<>>],
    [field |-> "N", format |-> <<"Gone">>, args |-> <<>>]>>

ExMsgIds == Subs \X (1..Len(SubMainCalls))

\* the output after lpr.f(format, args...) of the service's own lpr
ServiceLog(out, f, format, args) ==
  LogLogger_F(pri, prefix, flags, out, MakePriPr(LogLoggerRef)[f].pri, format, args)

\* NewChanService and the start of main: a LogLogger at Debug with
\* identifier S1 and no date and time, on which "Constructed" and "Entered"
\* were logged; MakeChanLogger(s.lgr, 2); the channel ich; no subservice
\* started yet
InitEx ==
  /\ pri = Debug
  /\ prefix = <<"S1">>
  /\ flags = (LogLogMaker("svc").flags \cup {"Lmsgprefix"}) \ {"Ldate", "Ltime"}
  /\ sb = LogLogger_F(Debug, <<"S1">>, {"Lmsgprefix"},
                      LogLogger_F(Debug, <<"S1">>, {"Lmsgprefix"}, <<>>,
                                  Notice, <<"Constructed">>, <<>>),
                      Notice, <<"Entered">>, <<>>)
  /\ reqCap = LogCap
  /\ chanCap = MakeChanLogger("blgr", reqCap).cap
  /\ ech = MakeChanLogger("blgr", reqCap).ech
  /\ ep = [p \in Subs |->
             PrefixedChanLogger(MakeChanLogger("blgr", reqCap).cl, Pfx(p))]
  /\ dsrc = [p \in Subs |-> Kind(MakeChanLogger("blgr", reqCap).cl)]
  /\ pc = [p \in Subs |-> "none"]
  /\ msg = [p \in Subs |-> NoMsg]
  /\ cnt = [p \in Subs |-> 0]
  /\ cons = "go"
  /\ lm = NoMsg
  /\ inF = {}
  /\ calls = [id \in ExMsgIds |-> NoCall]
  /\ sent = <<>>
  /\ received = <<>>
  /\ emitted = <<>>
  /\ nSetPri = 0
  /\ panicked = FALSE
  /\ closed = FALSE
  /\ npri = Warning
  /\ ret = "none"
  /\ ops = <<>>
  /\ UInit

\* what the actions of the example leave as it is
exframe == <<pri, prefix, flags, reqCap, chanCap, ep, inF, calls, sent, received,
             nSetPri, panicked, closed, dsrc, lvars, restE>>

\* the subservices started
Started == {p \in Subs : pc[p] # "none"}

\* go subMain(&s.wg, ich, lw.MakePriPr(lw.PrefixedChanLogger(chlgr, "sN: ")))
main_go ==
  /\ cons = "go"
  /\ \E p \in Subs \ Started :
       /\ \A q \in Subs \ Started : p <= q
       /\ pc' = [pc EXCEPT ![p] = "idle"]
  /\ cons' = "started"
  /\ UNCHANGED <<sb, ech, msg, cnt, lm, emitted, ich, ccnt, exframe>>

\* lpr.I("Started sN"), and on to the next go statement or to the loop
main_started ==
  /\ cons = "started"
  /\ sb' = ServiceLog(sb, "I", <<"Started s", "%d">>,
                      <<IntArg(Cardinality(Started))>>)
  /\ cons' = IF Started = Subs THEN "loop" ELSE "go"
  /\ UNCHANGED <<ech, pc, msg, cnt, lm, emitted, ich, ccnt, exframe>>

\* case lm := <-lch, in the loop and in the flush
main_recv ==
  /\ cons \in {"loop", "flush"}
  /\ ech # <<>>
  /\ lm' = Head(ech)
  /\ ech' = Tail(ech)
  /\ cons' = IF cons = "loop" THEN "got" ELSE "fgot"
  /\ UNCHANGED <<sb, pc, msg, cnt, emitted, ich, ccnt, exframe>>

\* lm.Emit()
main_emit ==
  /\ cons \in {"got", "fgot"}
  /\ sb' = emittable_Emit(lm)
  /\ emitted' = Append(emitted, [id |-> lm.id, thr |-> pri, wrote |-> sb' # sb])
  /\ lm' = NoMsg
  /\ cons' = IF cons = "got" THEN "loop" ELSE "flush"
  /\ UNCHANGED <<ech, pc, msg, cnt, ich, ccnt, exframe>>

\* a loop that ends with the first exit notification
main_signal_first ==
  /\ cons = "loop"
  /\ ich > 0
  /\ ich' = ich - 1
  /\ ccnt' = ccnt + 1
  /\ sb' = ServiceLog(sb, "I", <<"%d", " signalled done">>, <<IntArg(ccnt + 1)>>)
  /\ cons' = "flush"
  /\ UNCHANGED <<ech, pc, msg, cnt, lm, emitted, exframe>>

\* a main that does not flush the channel after the loop
main_signal_noflush ==
  /\ cons = "loop"
  /\ ich > 0
  /\ ich' = ich - 1
  /\ ccnt' = ccnt + 1
  /\ sb' = ServiceLog(sb, "I", <<"%d", " signalled done">>, <<IntArg(ccnt + 1)>>)
  /\ cons' = IF ccnt + 1 < SubServices THEN "loop" ELSE "gone"
  /\ UNCHANGED <<ech, pc, msg, cnt, lm, emitted, exframe>>

\* case <-ich: cnt++; lpr.I("%d signalled done", cnt); loop = cnt < 2
main_signal ==
  /\ cons = "loop"
  /\ ich > 0
  /\ ich' = ich - 1
  /\ ccnt' = ccnt + 1
  /\ sb' = ServiceLog(sb, "I", <<"%d", " signalled done">>, <<IntArg(ccnt + 1)>>)
  /\ cons' = IF ccnt + 1 < SubServices THEN "loop" ELSE "flush"
  /\ UNCHANGED <<ech, pc, msg, cnt, lm, emitted, exframe>>

\* default, in the flush: loop = false
main_default ==
  /\ cons = "flush"
  /\ ech = <<>>
  /\ cons' = "gone"
  /\ UNCHANGED <<sb, ech, pc, msg, cnt, lm, emitted, ich, ccnt, exframe>>

\* lpr.N("Gone"); s.wg.Done()
main_gone ==
  /\ cons = "gone"
  /\ sb' = ServiceLog(sb, "N", <<"Gone">>, <<>>)
  /\ cons' = "done"
  /\ UNCHANGED <<ech, pc, msg, cnt, lm, emitted, ich, ccnt, exframe>>

\* the next lpr call of subMain: chanLogger.F builds the emittable
subMain_F(p) ==
  /\ pc[p] = "idle"
  /\ cnt[p] < Len(SubMainCalls)
  /\ LET c == SubMainCalls[cnt[p] + 1]
         w == MakePriPr(ep[p])[c.field]
     IN msg' = [msg EXCEPT ![p] =
                  Emittable(w.lgr, <<p, cnt[p] + 1>>, w.pri, c.format, c.args)]
  /\ cnt' = [cnt EXCEPT ![p] = @ + 1]
  /\ pc' = [pc EXCEPT ![p] = "send"]
  /\ UNCHANGED <<sb, ech, cons, lm, emitted, ich, ccnt, exframe>>

\* v.ech <- &emittable{...}: waits for room in the channel
subMain_send(p) ==
  /\ pc[p] = "send"
  /\ Len(ech) < chanCap
  /\ ech' = Append(ech, msg[p])
  /\ msg' = [msg EXCEPT ![p] = NoMsg]
  /\ pc' = [pc EXCEPT ![p] = IF cnt[p] = Len(SubMainCalls) THEN "signal" ELSE "idle"]
  /\ UNCHANGED <<sb, cnt, cons, lm, emitted, ich, ccnt, exframe>>

\* och <- struct{}{}
subMain_signal(p) ==
  /\ pc[p] = "signal"
  /\ ich < SigCap
  /\ ich' = ich + 1
  /\ pc' = [pc EXCEPT ![p] = "done"]
  /\ UNCHANGED <<sb, ech, msg, cnt, cons, lm, emitted, ccnt, exframe>>

\* the steps of ChanService.main and of subservice p
main ==
  \/ main_go
  \/ main_started
  \/ main_recv
  \/ main_emit
  \/ main_signal
  \/ main_default
  \/ main_gone
subMain(p) ==
  \/ subMain_F(p)
  \/ subMain_send(p)
  \/ subMain_signal(p)

NextEx ==
  \/ main
  \/ \E p \in Subs : subMain(p)

SpecEx == InitEx /\ [][NextEx]_vars

\* every goroutine that can take a step eventually takes one
SpecExFair == SpecEx /\ WF_vars(main) /\ \A p \in Subs : WF_vars(subMain(p))


\* the service and its subservices have all reached their end
Terminated == cons = "done" /\ \A p \in Subs : pc[p] = "done"

\* the Emit calls made for message id
EmitsOf(id) == {i \in 1..Len(emitted) : emitted[i].id = id}

\* C25: when the consumer of the example finishes (it has two completion
\* signals and found the channel empty without blocking), the channel is
\* empty and each of the eight messages of the two producers has been
\* emitted exactly once, and written, in every interleaving
C25_DrainedAtEnd ==
  cons \in {"gone", "done"} =>
    /\ ech = <<>>
    /\ lm = NoMsg
    /\ \A id \in ExMsgIds :
         /\ Cardinality(EmitsOf(id)) = 1
         /\ \A i \in EmitsOf(id) : emitted[i].wrote

\* the consumer has finished and the messages of the two producers were
\* emitted interleaved
C25_Witness ==
  /\ cons = "done"
  /\ Len(emitted) = Cardinality(ExMsgIds)
  /\ \E i, j, k \in 1..Len(emitted) :
       /\ i < j /\ j < k
       /\ emitted[i].id[1] = 1 /\ emitted[j].id[1] = 2 /\ emitted[k].id[1] = 1

\* C28: the example protocol terminates: no reachable state short of the
\* end is a deadlock, and under fair scheduling both producers finish and
\* the consumer reaches its end
C28_Terminates ==
  /\ [](~Terminated => ENABLED NextEx)
  /\ <>Terminated

\* everything has ended after a producer had to wait for room in the
\* channel: the last messages went through the full channel
C28_Witness ==
  /\ Terminated
  /\ ich = 0
  /\ ccnt = SubServices
  /\ \E i \in 1..Len(emitted) : emitted[i].id[2] = Len(SubMainCalls)

(* ------------------------------- a producer that keeps its argument list *)
\* the producer and its one message
Keeper == 1
KeptId == <<Keeper, 1>>

\* the values the producer stores in its list
ListValues == {IntArg(1), IntArg(2), StrArg("a")}

\* the format of the call
KeptFormat == <<"n=", "%d", " s=", "%s">>

\* the number of operands of the call
ListLen == 2

\* the priorities the producer submits at
KeptPris == {Error, Info}

\* a LogLogger as LogLogMaker makes it, at some threshold, wrapped by
\* MakeChanLogger(lgr, 1); the producer holds the logger and a list
InitAlias ==
  /\ pri \in Thresholds
  /\ prefix = LogLogMaker("nil").prefix
  /\ flags = LogLogMaker("nil").flags
  /\ sb = <<>>
  /\ reqCap = 1
  /\ chanCap = MakeChanLogger("blgr", reqCap).cap
  /\ ech = MakeChanLogger("blgr", reqCap).ech
  /\ ep = [p \in {Keeper} |-> MakeChanLogger("blgr", reqCap).cl]
  /\ dsrc = [p \in {Keeper} |-> "none"]
  /\ pc = [p \in {Keeper} |-> "idle"]
  /\ msg = [p \in {Keeper} |-> NoMsg]
  /\ cnt = [p \in {Keeper} |-> 0]
  /\ cons = "idle"
  /\ lm = NoMsg
  /\ inF = {}
  /\ calls = [id \in {KeptId} |-> NoCall]
  /\ sent = <<>>
  /\ received = <<>>
  /\ emitted = <<>>
  /\ nSetPri = 0
  /\ panicked = FALSE
  /\ closed = FALSE
  /\ npri = Warning
  /\ ret = "none"
  /\ ops = <<>>
  /\ PInit /\ WInit /\ EInit
  /\ alist \in [1..ListLen -> ListValues]

\* what the actions on the kept list leave as it is
aframe == <<pri, prefix, flags, reqCap, chanCap, ep, inF, nSetPri, panicked,
            closed, dsrc, lvars, restA>>

\* lgr.F(p, format, list...): the variadic parameter args is the caller's
\* slice, and chanLogger.F stores it in the emittable
keeper_F(p) ==
  /\ pc[Keeper] = "idle"
  /\ cnt[Keeper] = 0
  /\ cnt' = [cnt EXCEPT ![Keeper] = 1]
  /\ calls' = [calls EXCEPT ![KeptId] =
                 [made |-> TRUE, ep |-> ep[Keeper], pri |-> p, format |-> KeptFormat,
                  args |-> alist, thr |-> pri]]
  /\ msg' = [msg EXCEPT ![Keeper] = Emittable(ep[Keeper], KeptId, p, KeptFormat, alist)]
  /\ pc' = [pc EXCEPT ![Keeper] = "send"]
  /\ UNCHANGED <<sb, ech, cons, lm, sent, received, emitted, alist, aframe>>

\* v.ech <- &emittable{...}, and F returns
keeper_send ==
  /\ pc[Keeper] = "send"
  /\ Len(ech) < chanCap
  /\ ech' = Append(ech, msg[Keeper])
  /\ sent' = Append(sent, KeptId)
  /\ msg' = [msg EXCEPT ![Keeper] = NoMsg]
  /\ pc' = [pc EXCEPT ![Keeper] = "returned"]
  /\ UNCHANGED <<sb, cnt, cons, lm, calls, received, emitted, alist, aframe>>

\* list[i] = v, after F has returned: a new value for one element
keeper_store(i, v) ==
  /\ pc[Keeper] = "returned"
  /\ alist[i] # v
  /\ alist' = [alist EXCEPT ![i] = v]
  /\ pc' = [pc EXCEPT ![Keeper] = "stored"]
  /\ UNCHANGED <<sb, ech, msg, cnt, cons, lm, calls, sent, received, emitted, aframe>>

\* lm := <-lch
keeper_recv ==
  /\ cons = "idle"
  /\ ech # <<>>
  /\ lm' = Head(ech)
  /\ ech' = Tail(ech)
  /\ received' = Append(received, Head(ech).id)
  /\ cons' = "got"
  /\ UNCHANGED <<sb, pc, msg, cnt, calls, sent, emitted, alist, aframe>>

\* what a read of m.args can give: m.args is the slice the producer passed,
\* over the array of its list; nothing orders the producer's store with the
\* consumer's read, so each element is read as it was at the call or as the
\* producer has stored it since
ReadArgs(m) ==
  {a \in [1..Len(m.args) -> ListValues] :
     \A i \in 1..Len(m.args) : a[i] \in {m.args[i], alist[i]}}

\* lm.Emit(): m.lgr.F(m.pri, m.fmt, m.args...)
keeper_Emit ==
  /\ cons = "got"
  /\ \E a \in ReadArgs(lm) : sb' = emittable_Emit([lm EXCEPT !.args = a])
  /\ emitted' = Append(emitted, [id |-> lm.id, thr |-> pri, wrote |-> sb' # sb])
  /\ lm' = NoMsg
  /\ cons' = "idle"
  /\ UNCHANGED <<ech, pc, msg, cnt, calls, sent, received, alist, aframe>>

NextAlias ==
  \/ \E p \in KeptPris : keeper_F(p)
  \/ keeper_send
  \/ \E i \in 1..ListLen, v \in ListValues : keeper_store(i, v)
  \/ keeper_recv
  \/ keeper_Emit

SpecAlias == InitAlias /\ [][NextAlias]_vars

\* C30: a queued message owns a private copy of its argument list: when the
\* producer changes an element of the list it passed after F has returned
\* and before Emit, the line emitted is formatted from the argument values
\* as they were at the call of F
C30_PrivateCopy ==
  emitted # <<>> =>
    sb = LogLogger_F(pri, prefix, flags, <<>>, calls[KeptId].pri,
                     calls[KeptId].ep.pfx \o calls[KeptId].format,
                     calls[KeptId].args)

\* C32: a Set that fails because its text names no priority leaves the
\* variable with the value it had before the call (a variable holding Debug
\* still holds Debug after Set("fatal")), and ParsePriority changes neither
\* the variable nor any logger.
C32_FailedSetKeeps ==
  [][/\ (pop'.op = "Set" /\ pop'.wraps # "nil") => pv' = pv
     /\ pop'.op = "ParsePriority" => (pv' = pv /\ UNCHANGED <<lgvars, cvars, lvars>>)]_vars

\* C32 witness: Set("fatal") has failed on a variable that held Debug, and
\* the variable holds Debug
C32_Witness ==
  /\ pop.op = "Set" /\ pop.in = <<"f", "a", "t", "a", "l">>
  /\ pop.wraps = "ErrInvalidPriority"
  /\ pop.pri = Debug
  /\ pv = Debug

(* ------------------------------------------ a client of the whole API *)
\* the calls a client makes
MaxApiOps == 3

\* the Priority values a client passes: constants of the package, and
\* values of the integer type Priority that are none of them, as
\* Priority(7) or Emerg - 1
PriArgs == {Emerg, Warning, Debug, Debug + 1, Emerg - 1}

\* the texts a client passes
ApiTexts ==
  {<<"d", "e", "b", "u", "g">>, <<"f", "a", "t", "a", "l">>,
   <<"E", "m", "e", "r", "g">>}

\* the loggers a client holds: the LogLogger, the null logger, and the
\* forwarding logger on the LogLogger
ApiLoggers == {"blgr", "nlgr", "clgr"}

\* the format of the client's F calls
ApiFormat == <<"x">>

\* LogLogMaker(nil), NullLogMaker(nil), MakeChanLogger(lgr, 1), and a
\* Priority variable at its zero value
InitApi ==
  /\ pri = LogLogMaker("nil").pri
  /\ prefix = LogLogMaker("nil").prefix
  /\ flags = LogLogMaker("nil").flags
  /\ sb = <<>>
  /\ reqCap = 1
  /\ chanCap = MakeChanLogger("blgr", reqCap).cap
  /\ ech = MakeChanLogger("blgr", reqCap).ech
  /\ ep = [p \in {Keeper} |-> MakeChanLogger("blgr", reqCap).cl]
  /\ dsrc = [p \in {Keeper} |-> "none"]
  /\ pc = [p \in {Keeper} |-> "idle"]
  /\ msg = [p \in {Keeper} |-> NoMsg]
  /\ cnt = [p \in {Keeper} |-> 0]
  /\ cons = "idle"
  /\ lm = NoMsg
  /\ inF = {}
  /\ calls = [id \in {KeptId} |-> NoCall]
  /\ sent = <<>>
  /\ received = <<>>
  /\ emitted = <<>>
  /\ nSetPri = 0
  /\ panicked = FALSE
  /\ closed = FALSE
  /\ npri = NullLogMaker("nil")
  /\ ret = "none"
  /\ ops = <<>>
  /\ UInit

\* what no call of the client changes
apiframe == <<prefix, flags, reqCap, chanCap, ep, dsrc, pc, msg, cons, lm, inF,
              calls, sent, received, nSetPri, panicked, closed, ret, restP>>

\* pri, ok := ParsePriority(s)
api_ParsePriority(s) ==
  /\ Len(ops) < MaxApiOps
  /\ LET r == ParsePriority(s)
     IN pop' = Pop("ParsePriority", s, r.pri, r.ok, NoError, <<>>)
  /\ ops' = Append(ops, Op("ParsePriority", Emerg, s, NoInput, FALSE))
  /\ UNCHANGED <<pri, npri, pv, sb, ech, cnt, emitted, apiframe>>

\* err := p.Set(s)
api_Set(s) ==
  /\ Len(ops) < MaxApiOps
  /\ LET r == Priority_Set(pv, s)
     IN pv' = r.p /\ pop' = Pop("Set", s, pv, FALSE, r.err, <<>>)
  /\ ops' = Append(ops, Op("Set", Emerg, s, NoInput, FALSE))
  /\ UNCHANGED <<pri, npri, sb, ech, cnt, emitted, apiframe>>

\* lgr.SetPriority(p) on the LogLogger or the null logger
api_SetPriority(l, p) ==
  /\ Len(ops) < MaxApiOps
  /\ l \in {"blgr", "nlgr"}
  /\ IF l = "blgr" THEN pri' = p /\ npri' = npri ELSE npri' = p /\ pri' = pri
  /\ ops' = Append(ops, Op("SetPriority", p, <<l>>, NoInput, FALSE))
  /\ UNCHANGED <<pv, pop, sb, ech, cnt, emitted, apiframe>>

\* lgr.Priority().String(), or p.String() of the variable
api_String(l) ==
  /\ Len(ops) < MaxApiOps
  /\ LET p == IF l = "var" THEN pv
              ELSE IF l = "clgr" THEN chanLogger_Priority(ep[Keeper]).pri
              ELSE Logger_Priority(l).pri
     IN pop' = Pop("String", <<>>, p, FALSE, NoError, Priority_String(p))
  /\ ops' = Append(ops, Op("String", Emerg, <<l>>, NoInput, FALSE))
  /\ UNCHANGED <<pri, npri, pv, sb, ech, cnt, emitted, apiframe>>

\* lgr.F(p, "x"): the LogLogger writes or filters, the null logger does
\* nothing, the forwarding logger sends an emittable when the channel has
\* room
api_F(l, p) ==
  /\ Len(ops) < MaxApiOps
  /\ l = "clgr" => Len(ech) < chanCap
  /\ sb' = IF l = "blgr"
           THEN LogLogger_F(pri, prefix, flags, sb, p, ApiFormat, <<>>)
           ELSE sb
  /\ ech' = IF l = "clgr"
            THEN Append(ech, Emittable(ep[Keeper], <<Keeper, cnt[Keeper] + 1>>, p,
                                       ApiFormat, <<>>))
            ELSE ech
  /\ cnt' = IF l = "clgr" THEN [cnt EXCEPT ![Keeper] = @ + 1] ELSE cnt
  /\ ops' = Append(ops, Op("F", p, <<l>>, NoInput, sb' # sb))
  /\ UNCHANGED <<pri, npri, pv, pop, emitted, apiframe>>

\* (<-lch).Emit()
api_Emit ==
  /\ Len(ops) < MaxApiOps
  /\ ech # <<>>
  /\ sb' = emittable_Emit(Head(ech))
  /\ ech' = Tail(ech)
  /\ emitted' = Append(emitted, [id |-> Head(ech).id, thr |-> pri, wrote |-> sb' # sb])
  /\ ops' = Append(ops, Op("Emit", Emerg, <<>>, NoInput, sb' # sb))
  /\ UNCHANGED <<pri, npri, pv, pop, cnt, apiframe>>

NextApi ==
  \/ \E s \in ApiTexts : api_ParsePriority(s)
  \/ \E s \in ApiTexts : api_Set(s)
  \/ \E l \in {"blgr", "nlgr"} : \E p \in PriArgs : api_SetPriority(l, p)
  \/ \E l \in ApiLoggers \cup {"var"} : api_String(l)
  \/ \E l \in ApiLoggers : \E p \in PriArgs : api_F(l, p)
  \/ api_Emit

SpecApi == InitApi /\ [][NextApi]_vars

\* the Priority values held by a logger, by the variable, by a queued message
Held == {pri, npri, pv} \cup {ech[i].pri : i \in DOMAIN ech}

\* every value held is one of Emerg..Debug, and String has not failed
InRange ==
  /\ Held \subseteq Priorities
  /\ pop.op = "String" => pop.out # <<"panic: unhandled Priority">>

\* every Priority the client has passed to SetPriority and F is one of
\* Emerg..Debug
ValidArgs == \A i \in DOMAIN ops : ops[i].pri \in Priorities

OuterPfx(p) == <<"o", ToString(p), ": ">>

\* MakeChanLogger(lgr, 1) on a LogLogger at Debug, and every producer with
\* PrefixedChanLogger(chlgr, "oN: ")
InitNest ==
  /\ pri = Debug
  /\ prefix = LogLogMaker("nil").prefix
  /\ flags = LogLogMaker("nil").flags
  /\ sb = <<>>
  /\ reqCap = 1
  /\ chanCap = MakeChanLogger("blgr", reqCap).cap
  /\ ech = MakeChanLogger("blgr", reqCap).ech
  /\ ep = [p \in Producers |->
             PrefixedChanLogger(MakeChanLogger("blgr", reqCap).cl, OuterPfx(p))]
  /\ pc = [p \in Producers |-> "idle"]
  /\ msg = [p \in Producers |-> NoMsg]
  /\ cnt = [p \in Producers |-> 0]
  /\ cons = "idle"
  /\ lm = NoMsg
  /\ inF = {}
  /\ calls = [id \in MsgIds |-> NoCall]
  /\ sent = <<>>
  /\ received = <<>>
  /\ emitted = <<>>
  /\ nSetPri = 0
  /\ panicked = FALSE
  /\ closed = FALSE
  /\ dsrc = [p \in Producers |-> Kind(NoLogger)]
  /\ npri = Warning
  /\ ret = "none"
  /\ ops = <<>>
  /\ UInit

\* producers take PrefixedChanLogger(e, "sN: ") of an endpoint e that is
\* itself a result of PrefixedChanLogger, their own or another producer's
NextNest ==
  \/ \E p \in Producers : \E in \in Inputs : chanLogger_F(p, in)
  \/ \E p \in Producers : chanLogger_F_send(p)
  \/ \E p \in Producers : \E q \in Producers : Derive(p, ep[q])
  \/ Recv
  \/ Emit_begin
  \/ Emit_end

SpecNest == InitNest /\ [][NextNest]_vars

\* the prefix the endpoint of producer p was last asked to have
AskedPfx(p) == IF dsrc[p] = Kind(NoLogger) THEN OuterPfx(p) ELSE Pfx(p)

\* C34: PrefixedChanLogger applied with p2 to an endpoint that is itself a
\* result of PrefixedChanLogger with p1 gives an endpoint whose prefix is p2
\* alone, on the same channel and wrapped logger; its messages carry p2
\* followed by the format, with no trace of p1; and an endpoint with p1 that
\* others were derived from keeps prefixing with p1.
C34_PrefixReplaced ==
  /\ \A p \in Producers :
       ep[p] = [type |-> "chanLogger", nil |-> FALSE, ech |-> BaseEndpoint.ech,
                pfx |-> AskedPfx(p), lgr |-> BaseEndpoint.lgr]
  /\ \A m \in Messages :
       /\ m.fmt = AskedPfx(m.id[1]) \o calls[m.id].format
       /\ dsrc[m.id[1]] # Kind(NoLogger) => \A i \in DOMAIN m.fmt : m.fmt[i] # "o"

\* C34 witness: the second producer took its endpoint from an endpoint with
\* an outer prefix; its message, with the new prefix alone, is in the queue
\* while the first producer, which kept its endpoint, sends one with the
\* outer prefix
C34_Witness ==
  /\ dsrc[1] = Kind(NoLogger) /\ dsrc[2] # Kind(NoLogger)
  /\ Len(ech) = 1 /\ ech[1].id[1] = 2
  /\ ech[1].fmt = Pfx(2) \o calls[ech[1].id].format
  /\ pc[1] = "send"
  /\ msg[1].fmt = OuterPfx(1) \o calls[msg[1].id].format

\* the consumer's loop: lm := <-lch; lm.Emit()
Consume == Recv \/ Emit_begin \/ Emit_end

\* the consumer keeps receiving and emitting, and a producer whose send can
\* complete is not held back for ever
SpecNestFair ==
  /\ SpecNest
  /\ WF_vars(Consume)
  /\ \A p \in Producers : WF_vars(chanLogger_F_send(p))

\* Emit has been called on message id
EmittedMsg(id) == \E i \in DOMAIN emitted : emitted[i].id = id

\* C33: with a consumer that keeps receiving and fair scheduling, every F
\* call on a forwarding endpoint eventually returns, also when it found the
\* queue full, and its message is eventually emitted.
C33_SubmissionCompletes ==
  \A id \in MsgIds :
    /\ Submitted(id) ~> Returned(id)
    /\ Submitted(id) ~> EmittedMsg(id)

\* C33 witness: a producer is blocked in F with its second message on the
\* full queue while the consumer, which has emitted a message, is emitting
\* another
C33_Witness ==
  \E p \in Producers :
    /\ pc[p] = "send" /\ Len(ech) = chanCap /\ cons = "inF"
    /\ msg[p].id = <<p, 2>>
    /\ emitted # <<>>

====
